---- MODULE Spec2Model ----
(***************************************************************************)
(* Knowledge-graph engine of mcp_security: the graph builder               *)
(* (knowledge-graph/graph-builder.ts), the parser dispatcher and the       *)
(* language extractors it runs per file, the graph repository it writes    *)
(* to, and the impact analyzer that queries a loaded graph.                *)
(***************************************************************************)
EXTENDS Integers, Sequences, FiniteSets, TLC

\* ------------------------------------------------------------------------
\* Bounds of the model
\* ------------------------------------------------------------------------
\* number of buildGraph invocations in one behaviour
MaxBuilds == 2
\* most edges of a graph handed to the impact analyzer
MaxEdges == 3
\* most nodes without any edge in a graph handed to the impact analyzer
FillerNodes == 196
\* largest maxFiles option handed to buildGraph
MaxCap == 3
\* largest maxAttempts of a retry config
MaxAttempts == 3
\* most calls of Orchestrator.analyze
MaxAnalyses == 3

\* ------------------------------------------------------------------------
\* The project tree on disk.  Paths are sequences of segments; the relative
\* path handed to the parser is a string.
\* ------------------------------------------------------------------------
ProjectPath == <<"proj">>
LibDir == <<"proj", "lib">>
SkipDir == <<"proj", "node_modules">>

\* readdirSync(dir)
DirEntries(dir) ==
  IF dir = ProjectPath THEN <<"a.js", "builder.js", "lib", "node_modules", "README.md">>
  ELSE IF dir = LibDir THEN <<"b.js", "big.js", "m.py">>
  ELSE IF dir = SkipDir THEN <<"x.js">>
  ELSE <<>>

IsDirectory(fullPath) == fullPath \in {LibDir, SkipDir}

\* relative(options.projectPath, filePath)
relative(fullPath) ==
  IF fullPath = <<"proj", "a.js">> THEN "a.js"
  ELSE IF fullPath = <<"proj", "builder.js">> THEN "builder.js"
  ELSE IF fullPath = <<"proj", "lib", "b.js">> THEN "lib/b.js"
  ELSE IF fullPath = <<"proj", "lib", "big.js">> THEN "lib/big.js"
  ELSE IF fullPath = <<"proj", "lib", "m.py">> THEN "lib/m.py"
  ELSE IF fullPath = <<"proj", "node_modules", "x.js">> THEN "node_modules/x.js"
  ELSE "README.md"

\* the source files whose content and faults vary between projects
SourceFiles == {"a.js", "lib/b.js", "lib/m.py"}

\* stat.size
FileSize(fullPath) == IF fullPath = <<"proj", "lib", "big.js">> THEN 2000000 ELSE 100

\* '.' + entry.split('.').pop()
Extension(entry) ==
  IF entry \in {"a.js", "b.js", "big.js", "builder.js", "x.js"} THEN ".js"
  ELSE IF entry = "m.py" THEN ".py"
  ELSE IF entry = "README.md" THEN ".md"
  ELSE "." \o entry

\* pairs <<segment, pattern>> such that the segment contains the pattern as
\* a substring (String.prototype.includes on the names of this tree)
Contains == {<<"node_modules", "node_modules">>, <<"builder.js", "build">>}

defaultExcludePatterns ==
  {"node_modules", ".git", "__pycache__", ".pytest_cache", "dist", "build",
   ".next", "coverage", ".venv", "venv", "vendor"}

JsExtensions == {".js", ".jsx", ".mjs", ".cjs"}
TsExtensions == {".ts", ".tsx"}
PyExtensions == {".py", ".pyw"}

\* AstParser.getSupportedExtensions after the three registerLanguage calls
getSupportedExtensions == JsExtensions \cup TsExtensions \cup PyExtensions

DefaultMaxFileSize == 1048576
DefaultMaxFiles == 5000

\* ------------------------------------------------------------------------
\* File contents: the syntax tree of a file as its sequence of statements.
\* ------------------------------------------------------------------------
\* function declaration `name` whose body calls `calls` in order
FunctionDecl(name, calls, exported) ==
  [kind |-> "function", name |-> name, calls |-> calls, exported |-> exported]
\* method of a class (its class is not otherwise referenced)
MethodDef(name, calls) ==
  [kind |-> "method", name |-> name, calls |-> calls, exported |-> FALSE]
\* class declaration, `supers` its superclass names
ClassDecl(name, supers) ==
  [kind |-> "class", name |-> name, calls |-> supers, exported |-> FALSE]
\* import statement of module specifier `source`
ImportStmt(source) ==
  [kind |-> "import", name |-> source, calls |-> <<>>, exported |-> FALSE]

ContentsOf(f) ==
  IF f = "a.js" THEN
    { <<ImportStmt("./lib/b.js"), FunctionDecl("foo", <<"bar">>, FALSE)>>,
      <<FunctionDecl("n", <<>>, FALSE), FunctionDecl("foo", <<"n">>, FALSE)>>,
      <<FunctionDecl("foo", <<"ext", "ext">>, TRUE), MethodDef("run", <<"foo", "ghost">>)>> }
  ELSE IF f = "lib/b.js" THEN
    { <<FunctionDecl("bar", <<>>, TRUE)>>,
      <<FunctionDecl("n", <<>>, FALSE), ClassDecl("K", <<"Base">>)>>,
      <<FunctionDecl("n", <<>>, FALSE), ClassDecl("n", <<"Base">>)>> }
  ELSE
    { <<ImportStmt("os"), FunctionDecl("main", <<"helper">>, FALSE),
        FunctionDecl("helper", <<>>, FALSE)>>,
      <<>> }

\* what can go wrong with one file: statSync throws, readFileSync throws,
\* the text has a syntax error, extractNodes throws, extractEdges throws
\* after extractNodes has returned
FaultKinds == {"ok", "stat", "read", "syntax", "throws", "edgesThrow"}

AnalysisId == "A1"
OtherAnalysisId == "A0"
NoFile == ""

\* the options every buildGraph call of the model passes; 0 stands for an
\* option that is not given (falsy, so the default applies)
BuildOptions ==
  [analysisId |-> AnalysisId, excludePatterns |-> {}, maxFileSize |-> 0, maxFiles |-> 0]

VARIABLES
  content,        \* the project: statements of each source file
  fault,          \* the project: what goes wrong with each source file
  unreadableDirs, \* the project: directories readdirSync throws on
  options,        \* the options buildGraph is called with
  dbNodes,        \* table graph_nodes
  dbEdges,        \* table graph_edges
  dbFindings,     \* table findings
  nextId,         \* stands for uuidv4(): the next fresh id
  pc,             \* per buildGraph call: idle, parsing (suspended at the await), done, failed
  files,          \* per call: the list findFiles returned
  pos,            \* per call: index in files of the file whose parse is awaited
  overlapped,     \* per call: another call was active while this one was
  failedAt,       \* per call: the storage operation that threw, or "none"
  pre,            \* per call: the analysis's persisted graph when the call began
  created,        \* per call: ids of the nodes and edges the call inserted
  resolution,     \* per call: how each extracted edge was resolved
  result,         \* per call: the CodeGraph returned
  capWarned,      \* per call: findFiles logged that the max files limit was reached
  graph,          \* ImpactAnalyzer.graph
  nodeIndex,      \* ImpactAnalyzer.nodeIndex
  incomingEdgeIndex, \* ImpactAnalyzer.incomingEdgeIndex
  outgoingEdgeIndex, \* ImpactAnalyzer.outgoingEdgeIndex
  fileNodeIndex,  \* ImpactAnalyzer.fileNodeIndex
  answer,         \* the last call on the analyzer: its arguments and what it returned
  baseline,       \* the answer the analyzer had given when an edge was last added
  retry,          \* one call of executeWithRetry: its config, its position, what it did
  analyses,       \* analyses table: the rows in insertion order
  clock,          \* what new Date() reads, in milliseconds
  runs            \* the calls of Orchestrator.analyze, by the analysis each created

projectVars == <<content, fault, unreadableDirs, options>>
dbVars == <<dbNodes, dbEdges, nextId>>
buildVars ==
  <<pc, files, pos, overlapped, failedAt, pre, created, resolution, result, capWarned>>
analyzerVars ==
  <<graph, nodeIndex, incomingEdgeIndex, outgoingEdgeIndex, fileNodeIndex, answer, baseline>>
analysisVars == <<analyses, clock, runs>>
orchestratorVars == <<retry, analysisVars>>
vars == <<projectVars, dbVars, dbFindings, buildVars, analyzerVars, orchestratorVars>>

FileContent(f) == IF f \in SourceFiles THEN content[f] ELSE <<>>
FileFault(f) == IF f \in SourceFiles THEN fault[f] ELSE "ok"

\* ------------------------------------------------------------------------
\* GraphBuilder.findFiles
\* ------------------------------------------------------------------------
\* fullPath.includes(p), for a pattern without a path separator
PathIncludes(fullPath, p) ==
  \E i \in 1..Len(fullPath) : fullPath[i] = p \/ <<fullPath[i], p>> \in Contains

\* excludePatterns.some((p) => entry === p || fullPath.includes(p))
IsExcluded(entry, fullPath, excludePatterns) ==
  \E p \in excludePatterns : entry = p \/ PathIncludes(fullPath, p)

\* statSync(fullPath) throws
StatFails(fullPath) ==
  ~IsDirectory(fullPath) /\ FileFault(relative(fullPath)) = "stat"

\* walkDir, one directory: files is the list admitted so far
RECURSIVE walkDir(_, _, _), walkEntries(_, _, _, _)
walkEntries(dir, i, found, opt) ==
  LET entries == DirEntries(dir) IN
  IF i > Len(entries) \/ Len(found) >= opt.maxFiles THEN found
  ELSE
    LET entry == entries[i]
        fullPath == Append(dir, entry)
    IN
    IF IsExcluded(entry, fullPath, opt.excludePatterns) THEN walkEntries(dir, i + 1, found, opt)
    ELSE IF StatFails(fullPath) THEN walkEntries(dir, i + 1, found, opt)
    ELSE IF IsDirectory(fullPath) THEN walkEntries(dir, i + 1, walkDir(fullPath, found, opt), opt)
    ELSE IF Extension(entry) \notin getSupportedExtensions THEN walkEntries(dir, i + 1, found, opt)
    ELSE IF FileSize(fullPath) > opt.maxFileSize THEN walkEntries(dir, i + 1, found, opt)
    ELSE walkEntries(dir, i + 1, Append(found, fullPath), opt)

walkDir(dir, found, opt) ==
  IF Len(found) >= opt.maxFiles THEN found
  ELSE IF dir \in unreadableDirs THEN found
  ELSE walkEntries(dir, 1, found, opt)

\* faulty variant: options.maxFiles is not read
findFiles_DefaultCap(opts) ==
  LET opt == [excludePatterns |-> defaultExcludePatterns \cup opts.excludePatterns,
              maxFileSize |-> IF opts.maxFileSize # 0 THEN opts.maxFileSize ELSE DefaultMaxFileSize,
              maxFiles |-> DefaultMaxFiles]
  IN walkDir(ProjectPath, <<>>, opt)

findFiles(opts) ==
  LET opt == [excludePatterns |-> defaultExcludePatterns \cup opts.excludePatterns,
              maxFileSize |-> IF opts.maxFileSize # 0 THEN opts.maxFileSize ELSE DefaultMaxFileSize,
              maxFiles |-> IF opts.maxFiles # 0 THEN opts.maxFiles ELSE DefaultMaxFiles]
  IN walkDir(ProjectPath, <<>>, opt)

\* lines 227-229: the warning is logged when the list is as long as the cap
ReachedMaxFiles(opts, found) ==
  Len(found) >= (IF opts.maxFiles # 0 THEN opts.maxFiles ELSE DefaultMaxFiles)

\* ------------------------------------------------------------------------
\* Language extractors (javascript-parser.ts, python-parser.ts)
\* ------------------------------------------------------------------------
ExtractedElement(type, name, exported) ==
  [type |-> type, name |-> name, exported |-> exported]
ExtractedEdge(sourceRef, targetRef, type) ==
  [sourceRef |-> sourceRef, targetRef |-> targetRef, type |-> type]

\* the declarations the tree walk of extractJsNodes pushes after the module
\* node: a function or class declaration and an import statement each push
\* one element; a method_definition pushes none.  (The `seen` key
\* type:name:row only merges two declarations of one name on one line; the
\* statements of the model are on lines of their own.)
RECURSIVE JsElements(_, _)
JsElements(tree, i) ==
  IF i > Len(tree) THEN <<>>
  ELSE LET s == tree[i] IN
    (IF s.kind \in {"function", "class", "import"}
       THEN <<ExtractedElement(s.kind, s.name, s.exported)>>
       ELSE <<>>) \o JsElements(tree, i + 1)

extractJsNodes(tree, filePath) ==
  <<ExtractedElement("module", filePath, FALSE)>> \o JsElements(tree, 1)

\* extractPythonNodes: every function_definition, methods included, pushes
\* a function element; the extractor records no `exported` metadata
RECURSIVE PyElements(_, _)
PyElements(tree, i) ==
  IF i > Len(tree) THEN <<>>
  ELSE LET s == tree[i] IN
    (IF s.kind \in {"function", "method"} THEN <<ExtractedElement("function", s.name, FALSE)>>
     ELSE IF s.kind \in {"class", "import"} THEN <<ExtractedElement(s.kind, s.name, FALSE)>>
     ELSE <<>>) \o PyElements(tree, i + 1)

extractPythonNodes(tree, filePath) ==
  <<ExtractedElement("module", filePath, FALSE)>> \o PyElements(tree, 1)

\* the edges one statement yields: calls from the scope cursor to each
\* callee, inherits from a class to each superclass, imports from the file
\* path to the module specifier
RECURSIVE EdgesTo(_, _, _, _)
EdgesTo(sourceRef, targets, type, i) ==
  IF i > Len(targets) THEN <<>>
  ELSE <<ExtractedEdge(sourceRef, targets[i], type)>> \o EdgesTo(sourceRef, targets, type, i + 1)

StatementEdges(s, filePath) ==
  IF s.kind \in {"function", "method"} THEN EdgesTo(s.name, s.calls, "calls", 1)
  ELSE IF s.kind = "class" THEN EdgesTo(s.name, s.calls, "inherits", 1)
  ELSE <<ExtractedEdge(filePath, s.name, "imports")>>

\* extractJsEdges and extractPythonEdges: both set the cursor at a function
\* or method declaration, so every call of a body has that name as sourceRef
RECURSIVE extractEdges(_, _, _)
extractEdges(tree, filePath, i) ==
  IF i > Len(tree) THEN <<>>
  ELSE StatementEdges(tree[i], filePath) \o extractEdges(tree, filePath, i + 1)

\* ------------------------------------------------------------------------
\* AstParser (parser dispatcher)
\* ------------------------------------------------------------------------
\* AstParser.getExtension(filePath)
getExtension(filePath) ==
  IF filePath \in {"a.js", "builder.js", "lib/b.js", "lib/big.js", "node_modules/x.js"}
    THEN ".js"
  ELSE IF filePath = "lib/m.py" THEN ".py"
  ELSE ".md"

\* AstParser.getParserForFile: the language registered for the extension
getParserForFile(filePath) ==
  LET ext == getExtension(filePath) IN
  IF ext \in JsExtensions THEN "javascript"
  ELSE IF ext \in TsExtensions THEN "typescript"
  ELSE IF ext \in PyExtensions THEN "python"
  ELSE "unknown"

\* this.parser.parse(content): tree-sitter recovers from a syntax error by
\* wrapping the broken statement, here the last one, in an ERROR node that
\* no extractor pattern matches
SyntaxTree(filePath) ==
  LET text == FileContent(filePath) IN
  IF FileFault(filePath) = "syntax" /\ Len(text) > 0
    THEN SubSeq(text, 1, Len(text) - 1)
    ELSE text

ParsedNode(el, filePath) ==
  [type |-> el.type, name |-> el.name, file |-> filePath, exported |-> el.exported]
ParsedEdge(edge) ==
  [sourceId |-> edge.sourceRef, targetId |-> edge.targetRef, type |-> edge.type]

MapSeq(Op(_), seq) == [i \in 1..Len(seq) |-> Op(seq[i])]

\* the catch branch of parseFile
ParseFailure(filePath, language) ==
  [file |-> filePath, language |-> language, nodes |-> <<>>, edges |-> <<>>,
   errors |-> <<"extractor threw">>]

parseFile(filePath) ==
  LET language == getParserForFile(filePath) IN
  IF language = "unknown" THEN
    [file |-> filePath, language |-> "unknown", nodes |-> <<>>, edges |-> <<>>,
     errors |-> <<"No parser available for file extension">>]
  ELSE IF FileFault(filePath) \in {"throws", "edgesThrow"} THEN ParseFailure(filePath, language)
  ELSE
    LET tree == SyntaxTree(filePath)
        extractedElements == IF language = "python"
                               THEN extractPythonNodes(tree, filePath)
                               ELSE extractJsNodes(tree, filePath)
        extractedEdges == extractEdges(tree, filePath, 1)
        toNode(el) == ParsedNode(el, filePath)
    IN [file |-> filePath, language |-> language,
        nodes |-> MapSeq(toNode, extractedElements),
        edges |-> MapSeq(ParsedEdge, extractedEdges),
        errors |-> IF FileFault(filePath) = "syntax" THEN <<"Parse errors detected">> ELSE <<>>]

\* ------------------------------------------------------------------------
\* GraphRepository (storage/repositories/graph.ts)
\* ------------------------------------------------------------------------
NodeTypes == {"module", "class", "function", "variable", "import", "export"}
EdgeTypes == {"imports", "calls", "inherits", "implements", "uses", "defines",
              "contains", "depends_on"}

\* the value of `nodeMap.get(key)` when the key is absent
NullNode ==
  [id |-> 0, analysisId |-> "", type |-> "", name |-> "", file |-> NoFile,
   external |-> FALSE, exported |-> FALSE]
Found(node) == node.id # 0

\* createNodes(inputs): one transaction, the rows get fresh ids in input order
createNodes(inputs, firstId) ==
  [i \in 1..Len(inputs) |->
     [id |-> firstId + i - 1, analysisId |-> inputs[i].analysisId, type |-> inputs[i].type,
      name |-> inputs[i].name, file |-> inputs[i].file,
      external |-> inputs[i].external, exported |-> inputs[i].exported]]

\* createNode(input)
createNode(input, id) == createNodes(<<input>>, id)[1]

\* createEdges(inputs): one transaction
createEdges(inputs, firstId) ==
  [i \in 1..Len(inputs) |->
     [id |-> firstId + i - 1, analysisId |-> inputs[i].analysisId,
      sourceId |-> inputs[i].sourceId, targetId |-> inputs[i].targetId,
      type |-> inputs[i].type, unresolvedTarget |-> inputs[i].unresolvedTarget]]

Range(seq) == {seq[i] : i \in 1..Len(seq)}

findNodesByAnalysisId(nodes, analysisId) == {n \in nodes : n.analysisId = analysisId}
findEdgesByAnalysisId(edges, analysisId) == {e \in edges : e.analysisId = analysisId}

\* faulty variant: the DELETE on graph_edges is missing
deleteByAnalysisId_NodesOnly(nodes, edges, analysisId) ==
  [nodes |-> {n \in nodes : n.analysisId # analysisId}, edges |-> edges]

\* faulty variant: the DELETE on graph_nodes is missing
deleteByAnalysisId_EdgesOnly(nodes, edges, analysisId) ==
  [nodes |-> nodes, edges |-> {e \in edges : e.analysisId # analysisId}]

\* deleteByAnalysisId: both DELETEs in one transaction
deleteByAnalysisId(nodes, edges, analysisId) ==
  [nodes |-> {n \in nodes : n.analysisId # analysisId},
   edges |-> {e \in edges : e.analysisId # analysisId}]

\* getFullGraph
getFullGraph(nodes, edges, analysisId) ==
  LET ns == findNodesByAnalysisId(nodes, analysisId)
      es == findEdgesByAnalysisId(edges, analysisId)
  IN [analysisId |-> analysisId, nodes |-> ns, edges |-> es,
      stats |-> [totalNodes |-> Cardinality(ns), totalEdges |-> Cardinality(es),
                 nodesByType |-> [t \in NodeTypes |-> Cardinality({n \in ns : n.type = t})],
                 edgesByType |-> [t \in EdgeTypes |-> Cardinality({e \in es : e.type = t})]]]

\* ------------------------------------------------------------------------
\* GraphBuilder.buildGraph
\* ------------------------------------------------------------------------
Builds == 1..MaxBuilds

\* readFileSync(filePath, 'utf-8') throws
ReadFails(fullPath) == FileFault(relative(fullPath)) = "read"

\* The parse loop: a file whose read throws is caught and skipped without
\* suspending; the loop suspends at `await this.parser.parseFile` of every
\* other file.  NextAwait is the index of the first file at or after i at
\* which the loop suspends, 0 when the loop runs to its end.
NextAwait(fs, i) ==
  IF \E j \in i..Len(fs) : ~ReadFails(fs[j])
    THEN CHOOSE j \in i..Len(fs) : ~ReadFails(fs[j]) /\ \A k \in i..(j - 1) : ReadFails(fs[k])
    ELSE 0

\* allResults once the loop is over
RECURSIVE ParseAll(_, _)
\* faulty variant: a read error ends the loop instead of skipping the file
ParseAll_StopsAtReadError(fs, i) ==
  IF i > Len(fs) \/ ReadFails(fs[i]) THEN <<>>
  ELSE <<parseFile(relative(fs[i]))>> \o ParseAll(fs, i + 1)

ParseAll(fs, i) ==
  IF i > Len(fs) THEN <<>>
  ELSE (IF ReadFails(fs[i]) THEN <<>> ELSE <<parseFile(relative(fs[i]))>>) \o ParseAll(fs, i + 1)

\* nodeInputs = allResults.flatMap(...)
RECURSIVE NodeInputs(_, _, _)
NodeInputs(allResults, analysisId, i) ==
  IF i > Len(allResults) THEN <<>>
  ELSE LET toInput(node) == [analysisId |-> analysisId, type |-> node.type, name |-> node.name,
                             file |-> node.file, external |-> FALSE, exported |-> node.exported]
       IN MapSeq(toInput, allResults[i].nodes) \o NodeInputs(allResults, analysisId, i + 1)

\* the edges of all results in the order the two nested loops visit them,
\* each with the file of its result
RECURSIVE ExtractedEdges(_, _)
ExtractedEdges(allResults, i) ==
  IF i > Len(allResults) THEN <<>>
  ELSE LET withFile(edge) == [file |-> allResults[i].file, sourceId |-> edge.sourceId,
                              targetId |-> edge.targetId, type |-> edge.type]
       IN MapSeq(withFile, allResults[i].edges) \o ExtractedEdges(allResults, i + 1)

\* nodeMap: keys are <<"", name>> for the bare name and <<file, name>> for
\* `${file}:${name}` (no name of the model holds a colon)
BareKey(name) == <<NoFile, name>>
FileKey(file, name) == <<file, name>>
MapSet(map, key, node) == [k \in DOMAIN map \cup {key} |-> IF k = key THEN node ELSE map[k]]
MapGet(map, key) == IF key \in DOMAIN map THEN map[key] ELSE NullNode
EmptyMap == [k \in {} |-> NullNode]

\* faulty variant: a key keeps the first node set for it
RECURSIVE BuildNodeMap_FirstWins(_, _, _)
BuildNodeMap_FirstWins(createdNodes, i, map) ==
  IF i > Len(createdNodes) THEN map
  ELSE LET node == createdNodes[i]
           keep(m, key) == IF key \in DOMAIN m THEN m ELSE MapSet(m, key, node)
           byName == keep(map, BareKey(node.name))
       IN BuildNodeMap_FirstWins(createdNodes, i + 1,
            IF node.file # NoFile THEN keep(byName, FileKey(node.file, node.name))
            ELSE byName)

\* lines 105-112
RECURSIVE BuildNodeMap(_, _, _)
BuildNodeMap(createdNodes, i, map) ==
  IF i > Len(createdNodes) THEN map
  ELSE LET node == createdNodes[i]
           byName == MapSet(map, BareKey(node.name), node)
       IN BuildNodeMap(createdNodes, i + 1,
            IF node.file # NoFile THEN MapSet(byName, FileKey(node.file, node.name), node)
            ELSE byName)

\* nodeMap.get(ref) || nodeMap.get(`${result.file}:${ref}`)
ResolveRef(map, file, ref) ==
  LET byName == MapGet(map, BareKey(ref)) IN
  IF Found(byName) THEN byName ELSE MapGet(map, FileKey(file, ref))

EdgeInput(analysisId, source, target, type, unresolvedTarget) ==
  [analysisId |-> analysisId, sourceId |-> source.id, targetId |-> target.id,
   type |-> type, unresolvedTarget |-> unresolvedTarget]

\* the placeholder of lines 142-147
ExternalNode(analysisId, name, id) ==
  createNode([analysisId |-> analysisId, type |-> "module", name |-> name, file |-> NoFile,
              external |-> TRUE, exported |-> FALSE], id)

\* faulty variant: the placeholder of an unresolved target is created
\* before the source is looked at
RECURSIVE ResolveEdges_PlaceholderFirst(_, _, _, _)
ResolveEdges_PlaceholderFirst(edges, i, st, analysisId) ==
  IF i > Len(edges) THEN st
  ELSE
    LET edge == edges[i]
        sourceNode == ResolveRef(st.nodeMap, edge.file, edge.sourceId)
        targetNode == ResolveRef(st.nodeMap, edge.file, edge.targetId)
        externalNode == ExternalNode(analysisId, edge.targetId, st.nextId)
        entry(target, outcome) ==
          [file |-> edge.file, sourceRef |-> edge.sourceId, targetRef |-> edge.targetId,
           type |-> edge.type, source |-> sourceNode, target |-> target, outcome |-> outcome]
    IN
    IF Found(sourceNode) /\ Found(targetNode) THEN
      ResolveEdges_PlaceholderFirst(edges, i + 1,
        [st EXCEPT !.edgeInputs = Append(@, EdgeInput(analysisId, sourceNode, targetNode, edge.type, FALSE)),
                   !.log = Append(@, entry(targetNode, "resolved"))], analysisId)
    ELSE IF Found(sourceNode) THEN
      ResolveEdges_PlaceholderFirst(edges, i + 1,
        [st EXCEPT !.nodeMap = MapSet(@, BareKey(edge.targetId), externalNode),
                   !.placeholders = Append(@, externalNode),
                   !.nextId = @ + 1,
                   !.edgeInputs = Append(@, EdgeInput(analysisId, sourceNode, externalNode, edge.type, TRUE)),
                   !.log = Append(@, entry(externalNode, "placeholder"))], analysisId)
    ELSE IF ~Found(targetNode) THEN
      ResolveEdges_PlaceholderFirst(edges, i + 1,
        [st EXCEPT !.nodeMap = MapSet(@, BareKey(edge.targetId), externalNode),
                   !.placeholders = Append(@, externalNode),
                   !.nextId = @ + 1,
                   !.log = Append(@, entry(externalNode, "dropped"))], analysisId)
    ELSE
      ResolveEdges_PlaceholderFirst(edges, i + 1, [st EXCEPT !.log = Append(@, entry(targetNode, "dropped"))], analysisId)

\* lines 124-159, every createNode succeeding.  st.placeholders are the
\* placeholder nodes in creation order, st.log records per extracted edge
\* what it was resolved to.
RECURSIVE ResolveEdges(_, _, _, _)
ResolveEdges(edges, i, st, analysisId) ==
  IF i > Len(edges) THEN st
  ELSE
    LET edge == edges[i]
        sourceNode == ResolveRef(st.nodeMap, edge.file, edge.sourceId)
        targetNode == ResolveRef(st.nodeMap, edge.file, edge.targetId)
        externalNode == ExternalNode(analysisId, edge.targetId, st.nextId)
        entry(target, outcome) ==
          [file |-> edge.file, sourceRef |-> edge.sourceId, targetRef |-> edge.targetId,
           type |-> edge.type, source |-> sourceNode, target |-> target, outcome |-> outcome]
    IN
    IF Found(sourceNode) /\ Found(targetNode) THEN
      ResolveEdges(edges, i + 1,
        [st EXCEPT !.edgeInputs = Append(@, EdgeInput(analysisId, sourceNode, targetNode, edge.type, FALSE)),
                   !.log = Append(@, entry(targetNode, "resolved"))], analysisId)
    ELSE IF Found(sourceNode) THEN
      ResolveEdges(edges, i + 1,
        [st EXCEPT !.nodeMap = MapSet(@, BareKey(edge.targetId), externalNode),
                   !.placeholders = Append(@, externalNode),
                   !.nextId = @ + 1,
                   !.edgeInputs = Append(@, EdgeInput(analysisId, sourceNode, externalNode, edge.type, TRUE)),
                   !.log = Append(@, entry(externalNode, "placeholder"))], analysisId)
    ELSE
      ResolveEdges(edges, i + 1, [st EXCEPT !.log = Append(@, entry(targetNode, "dropped"))], analysisId)

\* lines 88-159 for the results of the parse loop, with ids from firstId on
Resolve(allResults, analysisId, firstId) ==
  LET nodeInputs == NodeInputs(allResults, analysisId, 1)
      createdNodes == createNodes(nodeInputs, firstId)
      st == ResolveEdges(ExtractedEdges(allResults, 1), 1,
              [nodeMap |-> BuildNodeMap(createdNodes, 1, EmptyMap), edgeInputs |-> <<>>,
               placeholders |-> <<>>, nextId |-> firstId + Len(createdNodes), log |-> <<>>],
              analysisId)
  IN [createdNodes |-> createdNodes, placeholders |-> st.placeholders,
      edgeInputs |-> st.edgeInputs, log |-> st.log, nextId |-> st.nextId]

\* what `result` holds while a call has returned nothing
NoGraph == getFullGraph({}, {}, "")

\* the storage operations of one call that can throw; k is the k-th
\* createNode (placeholder insert) of the call
NoFailure == [op |-> "none", k |-> 0]
Failures(maxPlaceholders) ==
  {NoFailure, [op |-> "deleteByAnalysisId", k |-> 0], [op |-> "createNodes", k |-> 0],
   [op |-> "createEdges", k |-> 0]}
  \cup {[op |-> "createNode", k |-> k] : k \in 1..maxPlaceholders}

\* faulty variant: the edges are inserted before the placeholders are
EdgesWritten_BeforePlaceholders(edges0, newEdges, failure) ==
  IF failure.op \in {"none", "createNode"} THEN edges0 \cup Range(newEdges) ELSE edges0

\* the edges table after lines 161-164: createEdges is reached only when no
\* earlier storage operation threw, and its transaction inserts all or none
EdgesWritten(edges0, newEdges, failure) ==
  IF failure.op = "none" THEN edges0 \cup Range(newEdges) ELSE edges0

\* lines 86-170 of buildGraph, run without suspension once the parse loop is
\* over: insert the nodes, resolve the edges (inserting placeholders), insert
\* the edges, read the graph back.  nodes0/edges0 are the tables as the call
\* finds them, r is Resolve of the parse results, `failure` is the storage
\* operation that throws, if any.
Persist(b, nodes0, edges0, r, failure) ==
  LET keptPlaceholders ==
        IF failure.op = "createNode" THEN SubSeq(r.placeholders, 1, failure.k - 1)
        ELSE r.placeholders
      firstEdgeId == r.nextId
      newEdges == createEdges(r.edgeInputs, firstEdgeId)
      nodesAfter == IF failure.op = "createNodes" THEN nodes0
                    ELSE nodes0 \cup Range(r.createdNodes) \cup Range(keptPlaceholders)
      edgesAfter == EdgesWritten(edges0, newEdges, failure)
  IN
  /\ failure.op \in {"none", "createNodes", "createNode", "createEdges"}
  /\ failure.op = "createEdges" => Len(r.edgeInputs) > 0
  /\ dbNodes' = nodesAfter
  /\ dbEdges' = edgesAfter
  /\ nextId' = IF failure.op = "createNodes" THEN nextId
               ELSE IF failure.op = "none" THEN firstEdgeId + Len(r.edgeInputs)
               ELSE firstEdgeId
  /\ created' = [created EXCEPT ![b] =
                   {n.id : n \in nodesAfter \ nodes0} \cup {e.id : e \in edgesAfter \ edges0}]
  /\ resolution' = [resolution EXCEPT ![b] =
                      IF failure.op \in {"none", "createEdges"} THEN r.log ELSE <<>>]
  /\ failedAt' = [failedAt EXCEPT ![b] = failure.op]
  /\ pc' = [pc EXCEPT ![b] = IF failure.op = "none" THEN "done" ELSE "failed"]
  /\ result' = [result EXCEPT ![b] =
                  IF failure.op = "none" THEN getFullGraph(nodesAfter, edgesAfter, AnalysisId)
                  ELSE NoGraph]

\* buildGraph is called: it runs up to its first await (or to its end when
\* the parse loop never suspends)
BuildStart(b) ==
  /\ pc[b] = "idle"
  /\ IF b = 1 THEN TRUE ELSE pc[b - 1] # "idle"
  /\ LET cleared == deleteByAnalysisId(dbNodes, dbEdges, AnalysisId)
         fs == findFiles(options)
         j == NextAwait(fs, 1)
         r == Resolve(ParseAll(fs, 1), AnalysisId, nextId)
         active == {c \in Builds : pc[c] = "parsing"}
     IN
     /\ pre' = [pre EXCEPT ![b] = [nodes |-> findNodesByAnalysisId(dbNodes, AnalysisId),
                                   edges |-> findEdgesByAnalysisId(dbEdges, AnalysisId)]]
     /\ overlapped' = [c \in Builds |-> overlapped[c] \/ (active # {} /\ c \in active \cup {b})]
     /\ \E failure \in Failures(IF j > 0 THEN 0 ELSE Len(r.placeholders)) :
          IF failure.op = "deleteByAnalysisId" THEN
            /\ pc' = [pc EXCEPT ![b] = "failed"]
            /\ failedAt' = [failedAt EXCEPT ![b] = failure.op]
            /\ UNCHANGED <<dbVars, files, pos, created, resolution, result, capWarned>>
          ELSE IF j > 0 THEN
            /\ failure = NoFailure
            /\ capWarned' = [capWarned EXCEPT ![b] = ReachedMaxFiles(options, fs)]
            /\ pc' = [pc EXCEPT ![b] = "parsing"]
            /\ files' = [files EXCEPT ![b] = fs]
            /\ pos' = [pos EXCEPT ![b] = j]
            /\ dbNodes' = cleared.nodes
            /\ dbEdges' = cleared.edges
            /\ UNCHANGED <<nextId, failedAt, created, resolution, result>>
          ELSE
            /\ files' = [files EXCEPT ![b] = fs]
            /\ capWarned' = [capWarned EXCEPT ![b] = ReachedMaxFiles(options, fs)]
            /\ UNCHANGED pos
            /\ Persist(b, cleared.nodes, cleared.edges, r, failure)
  /\ UNCHANGED <<projectVars, orchestratorVars, analyzerVars, dbFindings>>

\* the awaited parseFile promise settles and the call runs on: to the await
\* of the next readable file, or through the rest of buildGraph
BuildResume(b) ==
  /\ pc[b] = "parsing"
  /\ LET j == NextAwait(files[b], pos[b] + 1) IN
     IF j > 0 THEN
       /\ pos' = [pos EXCEPT ![b] = j]
       /\ UNCHANGED <<dbVars, pc, files, overlapped, failedAt, pre, created, resolution, result>>
     ELSE
       /\ LET r == Resolve(ParseAll(files[b], 1), AnalysisId, nextId) IN
          \E failure \in Failures(Len(r.placeholders)) :
            Persist(b, dbNodes, dbEdges, r, failure)
       /\ UNCHANGED <<files, pos, overlapped, pre>>
  /\ UNCHANGED <<projectVars, orchestratorVars, analyzerVars, dbFindings, capWarned>>

\* ------------------------------------------------------------------------
\* FindingsRepository.findByAnalysisId (storage/repositories/findings.ts)
\* ------------------------------------------------------------------------
\* pairs <<file, pattern>> such that `file LIKE '%pattern%'` holds without
\* the two being equal, on the file names of the model
Like == {<<"src/t.js", "t.js">>}

\* rank of a severity in the order of the TEXT column
SeverityRank(severity) ==
  IF severity = "critical" THEN 1
  ELSE IF severity = "high" THEN 2
  ELSE IF severity = "info" THEN 3
  ELSE IF severity = "low" THEN 4
  ELSE 5

\* ORDER BY severity DESC, created_at ASC (ids grow with the time of insertion)
RECURSIVE OrderFindings(_)
OrderFindings(rows) ==
  IF rows = {} THEN <<>>
  ELSE LET first == CHOOSE r \in rows : \A o \in rows :
                      \/ SeverityRank(r.severity) > SeverityRank(o.severity)
                      \/ (SeverityRank(r.severity) = SeverityRank(o.severity) /\ r.id <= o.id)
       IN <<first>> \o OrderFindings(rows \ {first})

\* findByAnalysisId(analysisId, { filePattern })
findByAnalysisId(findings, analysisId, filePattern) ==
  OrderFindings({f \in findings :
                   /\ f.analysisId = analysisId
                   /\ filePattern # "" => (f.file = filePattern \/ <<f.file, filePattern>> \in Like)})

\* ------------------------------------------------------------------------
\* ImpactAnalyzer (knowledge-graph/impact-analyzer.ts)
\* ------------------------------------------------------------------------
\* targetFunction when the argument is not given
NoFunction == ""

DefaultMaxDepth == 5

\* the message of the error analyzeFileImpact throws
NotLoaded == "Graph not loaded or mismatched analysis ID. Call loadGraph first."

\* what `answer` holds before any call
NoAnswer ==
  [call |-> "none", args |-> <<>>, outcome |-> "none", value |-> <<>>, trace |-> <<>>]

\* rows in the order the query returns them: ids grow with every insert
RECURSIVE InIdRange(_, _, _)
InIdRange(rows, lo, hi) ==
  IF rows = {} THEN <<>>
  ELSE IF lo = hi THEN <<CHOOSE r \in rows : TRUE>>
  ELSE LET mid == (lo + hi) \div 2 IN
       InIdRange({r \in rows : r.id <= mid}, lo, mid)
         \o InIdRange({r \in rows : r.id > mid}, mid + 1, hi)

InIdOrder(rows) ==
  LET ids == {r.id : r \in rows} IN
  IF rows = {} THEN <<>>
  ELSE InIdRange(rows, CHOOSE id \in ids : \A o \in ids : id <= o,
                 CHOOSE id \in ids : \A o \in ids : o <= id)

\* Set.prototype.add on a set kept in insertion order
AddNew(seq, x) == IF x \in Range(seq) THEN seq ELSE Append(seq, x)

\* this.incomingEdgeIndex.get(id) || []
Incoming(id) == IF id \in DOMAIN incomingEdgeIndex THEN incomingEdgeIndex[id] ELSE <<>>

\* the body of loadGraph(analysisId): the snapshot and its four indexes
Reload(analysisId) ==
  LET g == getFullGraph(dbNodes, dbEdges, analysisId) IN
  /\ graph' = g
  /\ nodeIndex' = [id \in {n.id : n \in g.nodes} |-> CHOOSE n \in g.nodes : n.id = id]
  /\ fileNodeIndex' = [f \in {n.file : n \in g.nodes} \ {NoFile} |->
                         InIdOrder({n \in g.nodes : n.file = f})]
  /\ incomingEdgeIndex' = [id \in {e.targetId : e \in g.edges} |->
                             InIdOrder({e \in g.edges : e.targetId = id})]
  /\ outgoingEdgeIndex' = [id \in {e.sourceId : e \in g.edges} |->
                             InIdOrder({e \in g.edges : e.sourceId = id})]

\* loadGraph(analysisId): it has no await, so it runs to its end when called
LoadGraph(analysisId) ==
  /\ Reload(analysisId)
  /\ answer' = [call |-> "loadGraph", args |-> <<analysisId>>, outcome |-> "returned",
                value |-> <<>>, trace |-> <<>>]
  /\ UNCHANGED <<projectVars, orchestratorVars, dbVars, dbFindings, buildVars, baseline>>

\* faulty variant: targetFunction is ignored
findTargetNodes_WholeFile(targetFile, targetFunction) ==
  IF targetFile \in DOMAIN fileNodeIndex THEN fileNodeIndex[targetFile] ELSE <<>>

\* findTargetNodes(targetFile, targetFunction)
findTargetNodes(targetFile, targetFunction) ==
  LET fileNodes == IF targetFile \in DOMAIN fileNodeIndex THEN fileNodeIndex[targetFile] ELSE <<>>
      isTarget(node) == node.type = "function" /\ node.name = targetFunction
  IN IF targetFunction # NoFunction THEN SelectSeq(fileNodes, isTarget) ELSE fileNodes

\* the loop over the incoming edges of one target; st holds
\* directDependentIds and directDependentFiles in insertion order
RECURSIVE DirectOfTarget(_, _, _, _)
DirectOfTarget(target, incoming, i, st) ==
  IF i > Len(incoming) THEN st
  ELSE LET sourceNode == MapGet(nodeIndex, incoming[i].sourceId) IN
       DirectOfTarget(target, incoming, i + 1,
         IF Found(sourceNode) /\ sourceNode.id # target.id
           THEN [ids |-> AddNew(st.ids, sourceNode.id),
                 files |-> IF sourceNode.file # NoFile THEN AddNew(st.files, sourceNode.file)
                           ELSE st.files]
           ELSE st)

\* the loop over the target nodes
RECURSIVE DirectDependents(_, _, _)
DirectDependents(targetNodes, i, st) ==
  IF i > Len(targetNodes) THEN st
  ELSE DirectDependents(targetNodes, i + 1,
         DirectOfTarget(targetNodes[i], Incoming(targetNodes[i].id), 1, st))

\* the loop over the incoming edges of a dequeued node; st holds the queue,
\* visited, transitiveDependentIds and transitiveDependentFiles
RECURSIVE VisitIncoming(_, _, _, _)
VisitIncoming(incoming, i, depth, st) ==
  IF i > Len(incoming) THEN st
  ELSE LET sourceId == incoming[i].sourceId
           sourceNode == MapGet(nodeIndex, sourceId)
       IN VisitIncoming(incoming, i + 1, depth,
            IF sourceId \notin st.visited
              THEN [queue |-> Append(st.queue, [nodeId |-> sourceId, depth |-> depth + 1]),
                    visited |-> st.visited \cup {sourceId},
                    ids |-> st.ids \cup {sourceId},
                    files |-> IF sourceNode.file # NoFile THEN AddNew(st.files, sourceNode.file)
                              ELSE st.files]
              ELSE st)

\* faulty variant: the depth of an item is not compared with maxDepth
RECURSIVE TransitiveDependents_Unbounded(_, _)
TransitiveDependents_Unbounded(st, maxDepth) ==
  IF st.queue = <<>> THEN st
  ELSE LET item == Head(st.queue)
           rest == [st EXCEPT !.queue = Tail(@)]
       IN TransitiveDependents_Unbounded(
            VisitIncoming(Incoming(item.nodeId), 1, item.depth, rest), maxDepth)

\* while (queue.length > 0)
RECURSIVE TransitiveDependents(_, _)
TransitiveDependents(st, maxDepth) ==
  IF st.queue = <<>> THEN st
  ELSE LET item == Head(st.queue)
           rest == [st EXCEPT !.queue = Tail(@)]
       IN IF item.depth > maxDepth THEN TransitiveDependents(rest, maxDepth)
          ELSE TransitiveDependents(VisitIncoming(Incoming(item.nodeId), 1, item.depth, rest),
                                    maxDepth)

\* faulty variant: the quotient is rounded up
MathRound_Ceil(num, den) == (num + den - 1) \div den

\* Math.round(num / den) for num >= 0 and den > 0: the nearest integer, a
\* half rounded up.  The double the code rounds lies on the same side of
\* every half as the exact quotient for all num = 100 * a with a <= den < 400,
\* but for a few quotients that are an exact half (23 of 40, 29 of 200, ...),
\* which no graph of the model produces.
MathRound(num, den) == (2 * num + den) \div (2 * den)

\* faulty variant: the share of the nodes that are not affected
ImpactScore_Unaffected(affectedNodes, totalNodes) ==
  IF totalNodes > 0 THEN MathRound((totalNodes - affectedNodes) * 100, totalNodes) ELSE 0

\* faulty variant: the operands of the quotient are swapped
ImpactScore_Swapped(affectedNodes, totalNodes) ==
  IF affectedNodes > 0 THEN MathRound(totalNodes * 100, affectedNodes) ELSE 0

\* totalNodes > 0 ? Math.round((affectedNodes / totalNodes) * 100) : 0
ImpactScore(affectedNodes, totalNodes) ==
  IF totalNodes > 0 THEN MathRound(affectedNodes * 100, totalNodes) ELSE 0

\* severity.toUpperCase()
ToUpperCase(severity) ==
  IF severity = "critical" THEN "CRITICAL"
  ELSE IF severity = "high" THEN "HIGH"
  ELSE IF severity = "medium" THEN "MEDIUM"
  ELSE IF severity = "low" THEN "LOW"
  ELSE "INFO"

\* dependentFiles.slice(0, 5)
PathLimit == 5
Slice(seq, n) == SubSeq(seq, 1, IF Len(seq) < n THEN Len(seq) ELSE n)

\* traceVulnerabilityPropagation; storageThrows: findByAnalysisId throws,
\* which the method catches
RECURSIVE Propagation(_, _, _, _)
Propagation(found, i, sourceFile, dependentFiles) ==
  IF i > Len(found) THEN <<>>
  ELSE (IF found[i].severity \in {"critical", "high"}
          THEN << [finding |-> <<ToUpperCase(found[i].severity), found[i].title>>,
                   propagationPath |-> <<sourceFile>> \o Slice(dependentFiles, PathLimit)] >>
          ELSE <<>>)
       \o Propagation(found, i + 1, sourceFile, dependentFiles)

traceVulnerabilityPropagation(analysisId, sourceFile, dependentFiles, storageThrows) ==
  IF storageThrows THEN <<>>
  ELSE Propagation(findByAnalysisId(dbFindings, analysisId, sourceFile), 1, sourceFile,
                   dependentFiles)

\* faulty variant: nothing is filtered out
Without_Nothing(list, excluded) == list

\* list.filter((f) => !excluded.has(f))
Without(list, excluded) ==
  LET kept(f) == f \notin Range(excluded) IN SelectSeq(list, kept)

\* visited as the traversal starts: the targets and the direct dependents
SeedVisited(targetNodes, directDependentIds) ==
  {targetNodes[i].id : i \in 1..Len(targetNodes)} \cup Range(directDependentIds)

\* the queue as the traversal starts
SeedQueue(directDependentIds) ==
  [i \in 1..Len(directDependentIds) |-> [nodeId |-> directDependentIds[i], depth |-> 1]]

\* analyzeFileImpact for a loaded graph of the requested analysis: the value
\* returned and, as trace, the locals the score is computed from
ImpactOf(analysisId, targetFile, targetFunction, maxDepth, storageThrows) ==
  LET targetNodes == findTargetNodes(targetFile, targetFunction)
      direct == DirectDependents(targetNodes, 1, [ids |-> <<>>, files |-> <<>>])
      transitive == TransitiveDependents(
                      [queue |-> SeedQueue(direct.ids),
                       visited |-> SeedVisited(targetNodes, direct.ids),
                       ids |-> {}, files |-> <<>>], maxDepth)
      totalNodes == Cardinality(graph.nodes)
      affectedNodes == Len(direct.ids) + Cardinality(transitive.ids)
      notDirect(f) == f \notin Range(direct.files)
      laterFiles == SelectSeq(transitive.files, notDirect)
  IN IF Len(targetNodes) = 0
       THEN [value |-> [targetFile |-> targetFile, targetFunction |-> targetFunction,
                        directDependents |-> <<>>, transitiveDependents |-> <<>>,
                        affectedFiles |-> <<>>, impactScore |-> 0,
                        vulnerabilityPropagation |-> <<>>],
             trace |-> [targetNodes |-> {}, directDependentIds |-> {},
                        transitiveDependentIds |-> {}, totalNodes |-> totalNodes]]
       ELSE [value |-> [targetFile |-> targetFile, targetFunction |-> targetFunction,
                        directDependents |-> direct.files,
                        transitiveDependents |-> Without(transitive.files, direct.files),
                        affectedFiles |-> direct.files \o laterFiles,
                        impactScore |-> ImpactScore(affectedNodes, totalNodes),
                        vulnerabilityPropagation |->
                          traceVulnerabilityPropagation(analysisId, targetFile, direct.files,
                                                        storageThrows)],
             trace |-> [targetNodes |-> {targetNodes[i].id : i \in 1..Len(targetNodes)},
                        directDependentIds |-> Range(direct.ids),
                        transitiveDependentIds |-> transitive.ids,
                        totalNodes |-> totalNodes]]

\* faulty variant: the loaded graph is used whatever analysis it belongs to
AnalyzeFileImpact_Unchecked(analysisId, targetFile, targetFunction, maxDepth) ==
  /\ \E storageThrows \in BOOLEAN :
       LET r == ImpactOf(analysisId, targetFile, targetFunction, maxDepth, storageThrows)
       IN answer' = [call |-> "analyzeFileImpact",
                     args |-> <<analysisId, targetFile, targetFunction, maxDepth>>,
                     outcome |-> "returned", value |-> r.value, trace |-> r.trace]
  /\ UNCHANGED <<projectVars, orchestratorVars, dbVars, dbFindings, buildVars, graph, nodeIndex,
                 incomingEdgeIndex, outgoingEdgeIndex, fileNodeIndex, baseline>>

\* analyzeFileImpact(analysisId, targetFile, targetFunction, maxDepth)
AnalyzeFileImpact(analysisId, targetFile, targetFunction, maxDepth) ==
  /\ \E storageThrows \in BOOLEAN :
       LET args == <<analysisId, targetFile, targetFunction, maxDepth>> IN
       IF graph = NoGraph \/ graph.analysisId # analysisId
         THEN answer' = [call |-> "analyzeFileImpact", args |-> <<analysisId>>,
                         outcome |-> "threw", value |-> NotLoaded, trace |-> <<>>]
         ELSE LET r == ImpactOf(analysisId, targetFile, targetFunction, maxDepth, storageThrows)
              IN answer' = [call |-> "analyzeFileImpact", args |-> args, outcome |-> "returned",
                            value |-> r.value, trace |-> r.trace]
  /\ UNCHANGED <<projectVars, orchestratorVars, dbVars, dbFindings, buildVars, graph, nodeIndex,
                 incomingEdgeIndex, outgoingEdgeIndex, fileNodeIndex, baseline>>

\* faulty variant: a node is dead when no node of another file references it
DeadNodes_ExternalOnly(g, index, incomingIndex) ==
  LET dead(node) ==
        LET edges == IF node.id \in DOMAIN incomingIndex THEN incomingIndex[node.id]
                     ELSE <<>>
        IN /\ node.type \notin {"module", "import", "export"}
           /\ ~node.exported
           /\ ~\E i \in 1..Len(edges) :
                 LET sourceNode == MapGet(index, edges[i].sourceId)
                 IN Found(sourceNode) /\ sourceNode.file # node.file
  IN SelectSeq(InIdOrder(g.nodes), dead)

\* the loop of findDeadCode over this.graph.nodes, on the snapshot g with
\* its node index and its incoming adjacency
DeadNodes(g, index, incomingIndex) ==
  LET dead(node) ==
        LET edges == IF node.id \in DOMAIN incomingIndex THEN incomingIndex[node.id]
                     ELSE <<>>
            hasExternalReference ==
              \E i \in 1..Len(edges) :
                LET sourceNode == MapGet(index, edges[i].sourceId)
                IN Found(sourceNode) /\ sourceNode.file # node.file
        IN /\ node.type \notin {"module", "import", "export"}
           /\ ~node.exported
           /\ ~hasExternalReference /\ Len(edges) = 0
  IN SelectSeq(InIdOrder(g.nodes), dead)

\* findDeadCode(analysisId): when no graph is loaded, or the graph of another
\* analysis is, it calls loadGraph, whose body has run to its end when the
\* call returns; trace.loaded tells whether it did
FindDeadCode(analysisId) ==
  /\ IF graph = NoGraph \/ graph.analysisId # analysisId
       THEN /\ Reload(analysisId)
            /\ answer' = [call |-> "findDeadCode", args |-> <<analysisId>>,
                          outcome |-> "returned",
                          value |-> DeadNodes(graph', nodeIndex', incomingEdgeIndex'),
                          trace |-> [loaded |-> TRUE]]
       ELSE /\ answer' = [call |-> "findDeadCode", args |-> <<analysisId>>,
                          outcome |-> "returned",
                          value |-> DeadNodes(graph, nodeIndex, incomingEdgeIndex),
                          trace |-> [loaded |-> FALSE]]
            /\ UNCHANGED <<graph, nodeIndex, incomingEdgeIndex, outgoingEdgeIndex,
                           fileNodeIndex>>
  /\ UNCHANGED <<projectVars, orchestratorVars, dbVars, dbFindings, buildVars, baseline>>

\* maxDepth of getDependencyChain when the argument is not given
DefaultChainDepth == 10

\* `${node.type}:${node.name}${node.file ? ` (${node.file})` : ''}`
ChainEntry(node) ==
  node.type \o ":" \o node.name
    \o (IF node.file # NoFile THEN " (" \o node.file \o ")" ELSE "")

\* faulty variant: an id taken from the queue is not looked up in visited
RECURSIVE ChainFrom_Revisiting(_, _, _, _)
ChainFrom_Revisiting(queue, visited, chain, maxDepth) ==
  IF queue = <<>> THEN chain
  ELSE LET id == Head(queue).id
           depth == Head(queue).depth
       IN IF depth > maxDepth
            THEN ChainFrom_Revisiting(Tail(queue), visited, chain, maxDepth)
            ELSE LET node == MapGet(nodeIndex, id)
                     outgoing == IF id \in DOMAIN outgoingEdgeIndex
                                 THEN outgoingEdgeIndex[id] ELSE <<>>
                 IN ChainFrom_Revisiting(
                      Tail(queue) \o [i \in 1..Len(outgoing) |->
                                        [id |-> outgoing[i].targetId, depth |-> depth + 1]],
                      visited \cup {id},
                      IF Found(node) THEN Append(chain, ChainEntry(node)) ELSE chain,
                      maxDepth)

\* the while loop of getDependencyChain over its FIFO queue
RECURSIVE ChainFrom(_, _, _, _)
ChainFrom(queue, visited, chain, maxDepth) ==
  IF queue = <<>> THEN chain
  ELSE LET id == Head(queue).id
           depth == Head(queue).depth
       IN IF id \in visited \/ depth > maxDepth
            THEN ChainFrom(Tail(queue), visited, chain, maxDepth)
            ELSE LET node == MapGet(nodeIndex, id)
                     outgoing == IF id \in DOMAIN outgoingEdgeIndex
                                 THEN outgoingEdgeIndex[id] ELSE <<>>
                 IN ChainFrom(
                      Tail(queue) \o [i \in 1..Len(outgoing) |->
                                        [id |-> outgoing[i].targetId, depth |-> depth + 1]],
                      visited \cup {id},
                      IF Found(node) THEN Append(chain, ChainEntry(node)) ELSE chain,
                      maxDepth)

\* faulty variant: the outgoing adjacency is consumed as it is walked
GetDependencyChain_Consuming(nodeId, maxDepth) ==
  /\ answer' = [call |-> "getDependencyChain", args |-> <<nodeId, maxDepth>>,
                outcome |-> "returned",
                value |-> ChainFrom(<<[id |-> nodeId, depth |-> 0]>>, {}, <<>>, maxDepth),
                trace |-> <<>>]
  /\ outgoingEdgeIndex' = EmptyMap
  /\ UNCHANGED <<projectVars, orchestratorVars, dbVars, dbFindings, buildVars, graph, nodeIndex,
                 incomingEdgeIndex, fileNodeIndex, baseline>>

\* getDependencyChain(nodeId, maxDepth): it reads the indexes whatever graph
\* is loaded, or none
GetDependencyChain(nodeId, maxDepth) ==
  /\ answer' = [call |-> "getDependencyChain", args |-> <<nodeId, maxDepth>>,
                outcome |-> "returned",
                value |-> ChainFrom(<<[id |-> nodeId, depth |-> 0]>>, {}, <<>>, maxDepth),
                trace |-> <<>>]
  /\ UNCHANGED <<projectVars, orchestratorVars, dbVars, dbFindings, buildVars, graph, nodeIndex,
                 incomingEdgeIndex, outgoingEdgeIndex, fileNodeIndex, baseline>>

\* ------------------------------------------------------------------------
\* executeWithRetry (orchestrator/retry-handler.ts)
\* ------------------------------------------------------------------------
\* `retry` before executeWithRetry is called with the config and options
RetryIdle(config) ==
  [config |-> config, pc |-> "idle", attempt |-> 0, delay |-> 0, lastError |-> "Unknown error",
   events |-> <<>>, value |-> "", thrown |-> <<>>]

\* one thing a call did: it called the operation, the operation rejected,
\* it called onRetry, it began to sleep
RetryEvent(kind, attempt, delay) == [kind |-> kind, attempt |-> attempt, delay |-> delay]

\* what the attempt-th call of the operation resolves to, or rejects with
ValueOf(attempt) == <<"value", attempt>>
ErrorOf(attempt) == <<"error", attempt>>

\* new RetryExhaustedError(operationName, lastError, config.maxAttempts)
RetryExhaustedError(lastError, attempts) ==
  [name |-> "RetryExhaustedError", lastError |-> lastError, attempts |-> attempts]

\* faulty variant: a failed attempt is always followed by a sleep
ShouldSleep_AfterLast(attempt, maxAttempts) == attempt <= maxAttempts

\* line 42: attempt < config.maxAttempts
ShouldSleep(attempt, maxAttempts) == attempt < maxAttempts

\* executeWithRetry is called: lines 28-37, up to the await of the first
\* call of the operation (maxAttempts is at least 1 by the config schema)
RetryStart ==
  /\ retry.pc = "idle"
  /\ retry' = [retry EXCEPT !.pc = "operation", !.attempt = 1, !.delay = retry.config.delayMs,
                            !.events = Append(@, RetryEvent("call", 1, 0))]
  /\ UNCHANGED <<projectVars, dbVars, dbFindings, buildVars, analyzerVars, analysisVars>>

\* the awaited operation resolves: line 37 returns its value
OperationResolves ==
  /\ retry.pc = "operation"
  /\ retry' = [retry EXCEPT !.pc = "returned", !.value = ValueOf(retry.attempt)]
  /\ UNCHANGED <<projectVars, dbVars, dbFindings, buildVars, analyzerVars, analysisVars>>

\* the awaited operation rejects: lines 38-56, up to the await of sleep or
\* to the throw that ends the call
OperationRejects ==
  /\ retry.pc = "operation"
  /\ LET lastError == ErrorOf(retry.attempt)
         failed == Append(retry.events, RetryEvent("rejected", retry.attempt, 0))
         notified == IF retry.config.hasOnRetry
                       THEN Append(failed, RetryEvent("onRetry", retry.attempt, retry.delay))
                       ELSE failed
     IN IF ShouldSleep(retry.attempt, retry.config.maxAttempts)
          THEN retry' = [retry EXCEPT
                           !.pc = "sleep", !.lastError = lastError,
                           !.events = Append(notified,
                                             RetryEvent("sleep", retry.attempt, retry.delay))]
          ELSE retry' = [retry EXCEPT
                           !.pc = "threw", !.lastError = lastError, !.attempt = @ + 1,
                           !.events = failed,
                           !.thrown = RetryExhaustedError(lastError, retry.config.maxAttempts)]
  /\ UNCHANGED <<projectVars, dbVars, dbFindings, buildVars, analyzerVars, analysisVars>>

\* the timer of sleep fires: line 50, the loop header, and lines 36-37 if
\* the loop goes on
SleepEnds ==
  /\ retry.pc = "sleep"
  /\ LET attempt == retry.attempt + 1
         delay == retry.delay * retry.config.backoffMultiplier
     IN IF attempt <= retry.config.maxAttempts
          THEN retry' = [retry EXCEPT !.pc = "operation", !.attempt = attempt, !.delay = delay,
                                     !.events = Append(@, RetryEvent("call", attempt, 0))]
          ELSE retry' = [retry EXCEPT
                           !.pc = "threw", !.attempt = attempt, !.delay = delay,
                           !.thrown = RetryExhaustedError(retry.lastError,
                                                          retry.config.maxAttempts)]
  /\ UNCHANGED <<projectVars, dbVars, dbFindings, buildVars, analyzerVars, analysisVars>>

\* the default RetryConfig (types/config.ts), the state of `retry` in the
\* specifications in which executeWithRetry is not called
DefaultRetryConfig ==
  [maxAttempts |-> 3, delayMs |-> 2000, backoffMultiplier |-> 2, hasOnRetry |-> FALSE]

\* ------------------------------------------------------------------------
\* Orchestrator.analyze and the analyses repository
\* ------------------------------------------------------------------------
\* SQL NULL and a column's value; a null trend
Null == <<>>
Value(v) == <<v>>
NoTrend == "null"

\* types/scores.ts calculateTrend; `previous` is NULL or a value
calculateTrend(current, previous) ==
  IF previous = Null THEN NoTrend
  ELSE LET delta == current - previous[1]
       IN IF delta > 5 THEN "improving" ELSE IF delta < -5 THEN "declining" ELSE "stable"

\* the row AnalysesRepository.create inserts
AnalysisRow(id, projectId, now) ==
  [id |-> id, projectId |-> projectId, startedAt |-> now, status |-> "running",
   overallScore |-> Null]

\* AnalysesRepository.mapRowToAnalysis: scores is null or the row's scores,
\* with trend: null
mapRowToAnalysis(row) ==
  [id |-> row.id, projectId |-> row.projectId, startedAt |-> row.startedAt,
   status |-> row.status,
   scores |-> IF row.overallScore # Null
                THEN Value([overall |-> row.overallScore[1], trend |-> NoTrend])
                ELSE Null]

\* AnalysesRepository.findLatestByProjectId: the rows that ORDER BY
\* started_at DESC LIMIT 1 may yield; rows of equal started_at come in an
\* order SQL leaves open
findLatestByProjectId(rows, projectId) ==
  {mapRowToAnalysis(rows[i]) :
     i \in {j \in DOMAIN rows :
              /\ rows[j].projectId = projectId
              /\ \A k \in DOMAIN rows :
                   rows[k].projectId = projectId => rows[k].startedAt <= rows[j].startedAt}}

\* AnalysesRepository.complete and fail, through update
complete(rows, id, scores) ==
  [rows EXCEPT ![id].status = "completed", ![id].overallScore = Value(scores.overall)]
fail(rows, id) == [rows EXCEPT ![id].status = "failed"]

\* the analyses of a project that are completed with scores
CompletedOf(rows, projectId) ==
  {i \in DOMAIN rows : /\ rows[i].projectId = projectId /\ rows[i].status = "completed"
                       /\ rows[i].overallScore # Null}

\* analyze is called: lines 33-51, up to the await of the scans.  The run
\* notes which analyses of the project were completed when it was called.
AnalyzeStart(source) ==
  /\ Len(analyses) < MaxAnalyses
  /\ \E now \in {clock, clock + 1} :
       LET id == Len(analyses) + 1
       IN /\ clock' = now
          /\ analyses' = Append(analyses, AnalysisRow(id, source, now))
          /\ runs' = Append(runs, [pc |-> "scans", projectId |-> source,
                                   earlier |-> CompletedOf(analyses, source),
                                   scores |-> Null, analysis |-> Null])
  /\ UNCHANGED <<projectVars, dbVars, dbFindings, buildVars, analyzerVars, retry>>

\* the scans of a run have settled and give a score: lines 53-111
AnalyzeCompletes(id, overall) ==
  /\ id \in DOMAIN runs /\ runs[id].pc = "scans"
  /\ \E now \in {clock, clock + 1} :
     \E previousAnalysis \in findLatestByProjectId(analyses, runs[id].projectId) :
       LET scores == [overall |-> overall,
                      trend |-> IF previousAnalysis.scores # Null
                                  THEN calculateTrend(
                                         overall, Value(previousAnalysis.scores[1].overall))
                                  ELSE NoTrend]
           completed == complete(analyses, id, scores)
       IN /\ clock' = now
          /\ analyses' = completed
          /\ runs' = [runs EXCEPT ![id].pc = "returned", ![id].scores = Value(scores),
                                  ![id].analysis = Value(mapRowToAnalysis(completed[id]))]
  /\ UNCHANGED <<projectVars, dbVars, dbFindings, buildVars, analyzerVars, retry>>

\* the scans of a run throw: lines 112-118
AnalyzeFails(id) ==
  /\ id \in DOMAIN runs /\ runs[id].pc = "scans"
  /\ \E now \in {clock, clock + 1} : clock' = now
  /\ analyses' = fail(analyses, id)
  /\ runs' = [runs EXCEPT ![id].pc = "threw"]
  /\ UNCHANGED <<projectVars, dbVars, dbFindings, buildVars, analyzerVars, retry>>

\* no call of executeWithRetry or of analyze has been made
RetryInactive == retry = RetryIdle(DefaultRetryConfig)
AnalysesEmpty == analyses = <<>> /\ clock = 0 /\ runs = <<>>
OrchestratorIdle == RetryInactive /\ AnalysesEmpty

\* ------------------------------------------------------------------------
\* Initial states
\* ------------------------------------------------------------------------
\* the contents of the project: every source file has one of its contents
ProjectContents ==
  content \in {c \in [SourceFiles -> UNION {ContentsOf(f) : f \in SourceFiles}] :
                 \A f \in SourceFiles : c[f] \in ContentsOf(f)}

\* a project on a healthy file system
HealthyProject ==
  /\ ProjectContents
  /\ fault = [f \in SourceFiles |-> "ok"]
  /\ unreadableDirs = {}
  /\ options = BuildOptions

\* a project in which any file may have a fault and the root or lib/ may be
\* unreadable
FaultyProject ==
  /\ ProjectContents
  /\ fault \in [SourceFiles -> FaultKinds]
  /\ unreadableDirs \in {{}, {LibDir}, {ProjectPath}}
  /\ options = BuildOptions

\* the graph another analysis left in the tables
OtherGraphNodes ==
  { [id |-> 1, analysisId |-> OtherAnalysisId, type |-> "module", name |-> "a.js",
     file |-> "a.js", external |-> FALSE, exported |-> FALSE],
    [id |-> 2, analysisId |-> OtherAnalysisId, type |-> "module", name |-> "os",
     file |-> NoFile, external |-> TRUE, exported |-> FALSE] }
OtherGraphEdges ==
  { [id |-> 3, analysisId |-> OtherAnalysisId, sourceId |-> 1, targetId |-> 2,
     type |-> "imports", unresolvedTarget |-> TRUE] }

\* the analyzer after construction
AnalyzerInit ==
  /\ graph = NoGraph
  /\ nodeIndex = EmptyMap
  /\ incomingEdgeIndex = EmptyMap
  /\ outgoingEdgeIndex = EmptyMap
  /\ fileNodeIndex = EmptyMap
  /\ answer = NoAnswer
  /\ baseline = NoAnswer

BuilderInit ==
  /\ pc = [b \in Builds |-> "idle"]
  /\ files = [b \in Builds |-> <<>>]
  /\ pos = [b \in Builds |-> 0]
  /\ overlapped = [b \in Builds |-> FALSE]
  /\ failedAt = [b \in Builds |-> "none"]
  /\ pre = [b \in Builds |-> [nodes |-> {}, edges |-> {}]]
  /\ created = [b \in Builds |-> {}]
  /\ capWarned = [b \in Builds |-> FALSE]
  /\ resolution = [b \in Builds |-> <<>>]
  /\ result = [b \in Builds |-> NoGraph]

FirstFreeId == Cardinality(OtherGraphNodes) + Cardinality(OtherGraphEdges) + 1

StorageInit ==
  /\ dbNodes = OtherGraphNodes
  /\ dbEdges = OtherGraphEdges
  /\ dbFindings = {}
  /\ nextId = FirstFreeId

\* Spec: up to MaxBuilds calls of buildGraph for one analysis, overlapping or
\* not, on an unchanged project, with storage operations that may throw
Init == HealthyProject /\ StorageInit /\ BuilderInit /\ AnalyzerInit
  /\ OrchestratorIdle

Next == \E b \in Builds : BuildStart(b) \/ BuildResume(b)

Spec == Init /\ [][Next]_vars

\* SpecFaults: one call of buildGraph on a project with file-system and
\* parse faults
FaultsInit == FaultyProject /\ StorageInit /\ BuilderInit /\ AnalyzerInit
  /\ OrchestratorIdle

FaultsNext == BuildStart(1) \/ BuildResume(1)

SpecFaults == FaultsInit /\ [][FaultsNext]_vars

\* ------------------------------------------------------------------------
\* SpecCap: one call of buildGraph with a maxFiles option, on a tree in
\* which files may fail statSync and directories may be unreadable
\* ------------------------------------------------------------------------
CappedProject ==
  /\ ProjectContents
  /\ fault \in [SourceFiles -> {"ok", "stat"}]
  /\ unreadableDirs \in {{}, {LibDir}, {ProjectPath}}
  /\ \E maxFiles \in 1..MaxCap : options = [BuildOptions EXCEPT !.maxFiles = maxFiles]

CapInit == CappedProject /\ StorageInit /\ BuilderInit /\ AnalyzerInit
  /\ OrchestratorIdle

CapNext == BuildStart(1) \/ BuildResume(1)

SpecCap == CapInit /\ [][CapNext]_vars

\* ------------------------------------------------------------------------
\* SpecImpact: the analyzer on persisted graphs
\* ------------------------------------------------------------------------
GraphNode(id, type, name, file, external) ==
  [id |-> id, analysisId |-> AnalysisId, type |-> type, name |-> name, file |-> file,
   external |-> external, exported |-> FALSE]

\* the nodes that edges run between: two files with functions, a file with a
\* class, and a placeholder
CoreNodes ==
  { GraphNode(11, "module", "t.js", "t.js", FALSE),
    GraphNode(12, "function", "f", "t.js", FALSE),
    GraphNode(13, "function", "g", "d.js", FALSE),
    GraphNode(14, "class", "f", "e.js", FALSE),
    GraphNode(15, "module", "os", NoFile, TRUE) }

\* k nodes of a generated file that nothing references
Fillers(k) == {GraphNode(15 + i, "variable", "v", "gen.js", FALSE) : i \in 1..k}

\* sizes of the unreferenced part of a large graph
FillerCounts == {FillerNodes - 1, FillerNodes}

\* the nodes of a project that is the file t.js alone
TinyNodes == {n \in CoreNodes : n.file = "t.js"}

\* <<source, target, type>> of the edges a graph may hold
CandidateEdges ==
  { <<13, 12, "calls">>, <<14, 12, "calls">>, <<14, 13, "inherits">>, <<11, 12, "defines">>,
    <<12, 12, "calls">>, <<13, 11, "imports">>, <<12, 13, "calls">>, <<11, 14, "imports">>,
    <<12, 15, "calls">>, <<12, 11, "uses">> }

GraphEdge(c) ==
  [id |-> 1000 + 10 * c[1] + c[2], analysisId |-> AnalysisId, sourceId |-> c[1],
   targetId |-> c[2], type |-> c[3], unresolvedTarget |-> c[2] = 15]

Finding(id, analysisId, file, severity, title) ==
  [id |-> id, analysisId |-> analysisId, file |-> file, severity |-> severity, title |-> title]

StoredFindings ==
  { Finding(1, AnalysisId, "t.js", "critical", "eval"),
    Finding(2, AnalysisId, "t.js", "low", "todo"),
    Finding(3, AnalysisId, "src/t.js", "high", "xss"),
    Finding(4, AnalysisId, "d.js", "medium", "md5"),
    Finding(6, AnalysisId, "d.js", "high", "rce"),
    Finding(5, OtherAnalysisId, "a.js", "high", "sqli") }

\* the edges of a graph of the core nodes alone: at most MaxEdges candidates
SmallGraphs == {S \in SUBSET CandidateEdges : Cardinality(S) <= MaxEdges}

\* the edges of a graph with unreferenced nodes: at most one candidate, an
\* edge to the function f of t.js
LargeGraphs == {{}} \cup {{c} : c \in {d \in CandidateEdges : d[2] = 12}}

\* the graphs an analysis may have persisted: the core nodes with a small
\* set of edges, t.js alone, or a large graph that is mostly unreferenced
\* nodes.  No edge is dangling.
PersistedGraphs ==
  {[nodes |-> CoreNodes, edges |-> S] : S \in SmallGraphs}
  \cup {[nodes |-> TinyNodes, edges |-> S] :
          S \in {T \in SmallGraphs :
                   \A c \in T : {c[1], c[2]} \subseteq {n.id : n \in TinyNodes}}}
  \cup {[nodes |-> CoreNodes \cup Fillers(k[1]), edges |-> k[2]] :
          k \in FillerCounts \X LargeGraphs}

ImpactStorageInit ==
  /\ \E g \in PersistedGraphs :
       /\ dbNodes = OtherGraphNodes \cup g.nodes
       /\ dbEdges = OtherGraphEdges \cup {GraphEdge(c) : c \in g.edges}
  /\ dbFindings = StoredFindings
  /\ nextId = 2000 + FillerNodes

ImpactProject ==
  /\ content = [f \in SourceFiles |-> CHOOSE c \in ContentsOf(f) : TRUE]
  /\ fault = [f \in SourceFiles |-> "ok"]
  /\ unreadableDirs = {}
  /\ options = BuildOptions

ImpactInit == ImpactProject /\ ImpactStorageInit /\ BuilderInit /\ AnalyzerInit
  /\ OrchestratorIdle

AnalysisIds == {AnalysisId, OtherAnalysisId}
QueriedIds == {AnalysisId}
TargetFiles == {"t.js", "d.js", "none.js"}
TargetFunctions == {NoFunction, "f"}
MaxDepths == {0, 1, DefaultMaxDepth}

ImpactNext ==
  \/ \E analysisId \in AnalysisIds : LoadGraph(analysisId)
  \/ \E analysisId \in QueriedIds, targetFile \in TargetFiles,
        targetFunction \in TargetFunctions, maxDepth \in MaxDepths :
       AnalyzeFileImpact(analysisId, targetFile, targetFunction, maxDepth)

SpecImpact == ImpactInit /\ [][ImpactNext]_vars

\* ------------------------------------------------------------------------
\* SpecQueries: the three queries of the analyzer, with or without a load
\* ------------------------------------------------------------------------
\* the core nodes, an exported function and an import node
QueryNodes ==
  CoreNodes \cup { [GraphNode(16, "function", "h", "d.js", FALSE) EXCEPT !.exported = TRUE],
                   GraphNode(17, "import", "os", "e.js", FALSE) }

\* a second edge between the nodes of an edge
ParallelEdge(e) == [e EXCEPT !.id = @ + 500, !.type = "uses"]

\* the candidate edges a graph may hold twice
Doubled == {<<11, 12, "defines">>}

QueryStorageInit ==
  /\ dbNodes = OtherGraphNodes \cup QueryNodes
  /\ \E S \in SmallGraphs : \E P \in SUBSET (S \cap Doubled) :
       dbEdges = OtherGraphEdges \cup {GraphEdge(c) : c \in S}
                   \cup {ParallelEdge(GraphEdge(c)) : c \in P}
  /\ dbFindings = {}
  /\ nextId = 2000 + FillerNodes

QueryInit == ImpactProject /\ QueryStorageInit /\ BuilderInit /\ AnalyzerInit
  /\ OrchestratorIdle

\* an id no node has
UnknownNodeId == 99

ChainStarts == {11, 12, 14, UnknownNodeId}
ChainDepths == {0, 1, DefaultChainDepth}

QueryNext ==
  \/ \E analysisId \in AnalysisIds : LoadGraph(analysisId)
  \/ \E analysisId \in AnalysisIds :
       AnalyzeFileImpact(analysisId, "t.js", NoFunction, DefaultMaxDepth)
  \/ \E analysisId \in AnalysisIds : FindDeadCode(analysisId)
  \/ \E nodeId \in ChainStarts, maxDepth \in ChainDepths : GetDependencyChain(nodeId, maxDepth)

SpecQueries == QueryInit /\ [][QueryNext]_vars

\* ------------------------------------------------------------------------
\* SpecGrow: the analyzer on a graph that gains edges between queries
\* ------------------------------------------------------------------------
\* graphRepository.createEdge(input) for an edge between two persisted nodes
\* of the analysis (the foreign keys of graph_edges), called when the
\* analyzer has answered a query on the graph as it is persisted; baseline
\* keeps that answer
CreateEdge(c) ==
  /\ answer.call = "analyzeFileImpact" /\ answer.outcome = "returned"
  /\ graph = getFullGraph(dbNodes, dbEdges, AnalysisId)
  /\ GraphEdge(c) \notin dbEdges
  /\ {c[1], c[2]} \subseteq {n.id : n \in findNodesByAnalysisId(dbNodes, AnalysisId)}
  /\ Cardinality(findEdgesByAnalysisId(dbEdges, AnalysisId)) < MaxEdges
  /\ dbEdges' = dbEdges \cup {GraphEdge(c)}
  /\ baseline' = answer
  /\ UNCHANGED <<projectVars, orchestratorVars, dbNodes, nextId, dbFindings, buildVars, graph, nodeIndex,
                 incomingEdgeIndex, outgoingEdgeIndex, fileNodeIndex, answer>>

\* the persisted graph is a graph of the core nodes that can still grow
GrowStorageInit ==
  /\ dbNodes = OtherGraphNodes \cup CoreNodes
  /\ \E chosen \in {S \in SmallGraphs : Cardinality(S) < MaxEdges} :
       dbEdges = OtherGraphEdges \cup {GraphEdge(c) : c \in chosen}
  /\ dbFindings = {}
  /\ nextId = 2000 + FillerNodes

GrowInit == ImpactProject /\ GrowStorageInit /\ BuilderInit /\ AnalyzerInit
  /\ OrchestratorIdle

GrowDepths == {1, DefaultMaxDepth}

GrowNext ==
  \/ LoadGraph(AnalysisId)
  \/ \E targetFunction \in TargetFunctions, maxDepth \in GrowDepths :
       AnalyzeFileImpact(AnalysisId, "t.js", targetFunction, maxDepth)
  \/ \E c \in CandidateEdges : CreateEdge(c)

SpecGrow == GrowInit /\ [][GrowNext]_vars

\* ------------------------------------------------------------------------
\* SpecRetry: one call of executeWithRetry, for every config within the
\* bounds and every outcome of every call of the operation
\* ------------------------------------------------------------------------
RetryConfigs ==
  [maxAttempts : 1..MaxAttempts, delayMs : {100, 2000}, backoffMultiplier : {1, 2, 3},
   hasOnRetry : BOOLEAN]

RetryInit ==
  /\ ImpactProject /\ StorageInit /\ BuilderInit /\ AnalyzerInit
  /\ \E config \in RetryConfigs : retry = RetryIdle(config)
  /\ AnalysesEmpty

RetryNext == RetryStart \/ OperationResolves \/ OperationRejects \/ SleepEnds

SpecRetry == RetryInit /\ [][RetryNext]_vars

\* ------------------------------------------------------------------------
\* SpecOrch: up to MaxAnalyses calls of Orchestrator.analyze on two
\* projects, overlapping or one after the other
\* ------------------------------------------------------------------------
Sources == {"/repo/a", "/repo/b"}
OverallScores == {50, 53, 60}

OrchInit ==
  /\ ImpactProject /\ StorageInit /\ BuilderInit /\ AnalyzerInit
  /\ RetryInactive /\ AnalysesEmpty

OrchNext ==
  \/ \E source \in Sources : AnalyzeStart(source)
  \/ \E id \in 1..MaxAnalyses : \E overall \in OverallScores : AnalyzeCompletes(id, overall)
  \/ \E id \in 1..MaxAnalyses : AnalyzeFails(id)

SpecOrch == OrchInit /\ [][OrchNext]_vars

\* ------------------------------------------------------------------------
\* Properties of buildGraph
\* ------------------------------------------------------------------------
PersistedGraph == getFullGraph(dbNodes, dbEdges, AnalysisId)

NodeIds(nodes, analysisId) == {n.id : n \in findNodesByAnalysisId(nodes, analysisId)}

\* C1: every persisted edge has a sourceId and a targetId that are ids of
\* nodes persisted for the edge's own analysis: no edge is dangling, in any
\* state and so after every buildGraph that completes.
C1_NoDanglingEdges ==
  \A e \in dbEdges :
    /\ e.sourceId \in NodeIds(dbNodes, e.analysisId)
    /\ e.targetId \in NodeIds(dbNodes, e.analysisId)

\* a call has completed and the graph it persisted holds an edge to a real
\* node and an edge to a placeholder
C1_Witness ==
  \E b \in Builds :
    /\ pc[b] = "done"
    /\ \E e \in PersistedGraph.edges : e.unresolvedTarget
    /\ \E e \in PersistedGraph.edges : ~e.unresolvedTarget

\* the nodes a call created that were extracted from `file` under `name`
DeclaredIn(b, file, name) ==
  {n \in result[b].nodes : n.id \in created[b] /\ n.file = file /\ n.name = name}

\* C2: a reference of an edge extracted from file F is probed as `F:name`
\* first, so whenever F itself declares a node of that name the reference
\* resolves to a node of F, whatever other file declares the same name.
C2_FileKeyFirst ==
  \A b \in Builds :
    pc[b] = "done" =>
      \A i \in 1..Len(resolution[b]) :
        LET en == resolution[b][i] IN
        /\ DeclaredIn(b, en.file, en.sourceRef) # {} => en.source.file = en.file
        /\ DeclaredIn(b, en.file, en.targetRef) # {} => en.target.file = en.file

HasStatement(f, stmt) == \E i \in 1..Len(content[f]) : content[f][i] = stmt

ImportsOf(b, file) ==
  {i \in 1..Len(resolution[b]) : resolution[b][i].file = file /\ resolution[b][i].type = "imports"}

\* C3: a Python file with the single import statement `import os`, a package
\* with no file in the project, gets exactly one imports edge, from the
\* file's module node to a placeholder (type module, external) that is no
\* node extracted from the importing file.
C3_ExternalImportPlaceholder ==
  \A b \in Builds :
    (pc[b] = "done" /\ HasStatement("lib/m.py", ImportStmt("os"))) =>
      /\ Cardinality(ImportsOf(b, "lib/m.py")) = 1
      /\ \A i \in ImportsOf(b, "lib/m.py") :
           LET en == resolution[b][i] IN
           /\ en.outcome # "dropped"
           /\ en.source.type = "module" /\ en.source.name = "lib/m.py"
           /\ en.target.type = "module" /\ en.target.external
           /\ en.target.file # "lib/m.py"

\* C4: when a.js imports lib/b.js, the one imports edge of a.js runs from
\* the module node of a.js to the module node extracted for lib/b.js.
C4_ImportTargetsModule ==
  \A b \in Builds :
    (pc[b] = "done" /\ HasStatement("a.js", ImportStmt("./lib/b.js"))) =>
      /\ Cardinality(ImportsOf(b, "a.js")) = 1
      /\ \A i \in ImportsOf(b, "a.js") :
           LET en == resolution[b][i] IN
           /\ en.outcome # "dropped"
           /\ en.source.type = "module" /\ en.source.name = "a.js"
           /\ en.target.type = "module" /\ en.target.file = "lib/b.js"
           /\ ~en.target.external

GraphIds(g) == {n.id : n \in g.nodes} \cup {e.id : e \in g.edges}

\* C5: calls of buildGraph that do not overlap another call return graphs
\* with the same node and edge counts per type, and the graph a call
\* returns holds only what that call created: nothing of an earlier run
\* survives.
C5_RebuildIdempotent ==
  \A b \in Builds :
    (pc[b] = "done" /\ ~overlapped[b]) =>
      /\ GraphIds(result[b]) \subseteq created[b]
      /\ \A c \in Builds :
           (pc[c] = "done" /\ ~overlapped[c]) => result[c].stats = result[b].stats

\* a second call completed after a first one that had left a graph with edges
C5_Witness ==
  \E b, c \in Builds :
    /\ b # c /\ pc[b] = "done" /\ pc[c] = "done" /\ ~overlapped[b] /\ ~overlapped[c]
    /\ pre[c].nodes # {} /\ pre[c].edges # {}
    /\ result[c].stats.totalEdges > 0

\* C6: when a call stops because a storage write throws, the analysis's
\* persisted graph is then the pre-build graph or empty.
C6_NeverHalfWritten ==
  [][\A b \in Builds :
       (pc[b] # "failed" /\ pc'[b] = "failed") =>
         LET g == getFullGraph(dbNodes', dbEdges', AnalysisId) IN
         \/ (g.nodes = pre'[b].nodes /\ g.edges = pre'[b].edges)
         \/ (g.nodes = {} /\ g.edges = {})]_vars

\* the graph one call alone persists for the project
SingleBuildStats ==
  LET r == Resolve(ParseAll(findFiles(BuildOptions), 1), AnalysisId, FirstFreeId) IN
  getFullGraph(Range(r.createdNodes) \cup Range(r.placeholders),
               Range(createEdges(r.edgeInputs, r.nextId)), AnalysisId).stats

\* C7: when two calls for the same analysis overlap and both complete, the
\* persisted graph has the counts of a single build.
C7_OverlapSerialized ==
  (\A b \in Builds : pc[b] = "done" /\ overlapped[b]) =>
    PersistedGraph.stats = SingleBuildStats

\* the walk reaches the file, and reading and parsing it raise nothing
Reachable(f) ==
  /\ ProjectPath \notin unreadableDirs
  /\ f \in {"lib/b.js", "lib/m.py"} => LibDir \notin unreadableDirs
ParsesSuccessfully(f) == Reachable(f) /\ fault[f] = "ok"

\* <<type, name>> of the declarations in the text of a file
Declarations(f) ==
  {<<"module", f>>} \cup
  {<<content[f][i].kind, content[f][i].name>> :
     i \in {k \in 1..Len(content[f]) : content[f][k].kind \in {"function", "class", "import"}}}

StorageOperations == {"deleteByAnalysisId", "createNodes", "createNode", "createEdges"}

\* C8: whatever directories are unreadable and whatever files cannot be
\* stat'ed, read or parsed, a call fails only at a storage operation that
\* throws, and the graph a call returns holds a node for every declaration
\* of every file that parsed successfully.
C8_OnlyStorageFailureIsFatal ==
  \A b \in Builds :
    /\ pc[b] = "failed" => failedAt[b] \in StorageOperations
    /\ pc[b] = "done" =>
         \A f \in SourceFiles :
           ParsesSuccessfully(f) =>
             \A d \in Declarations(f) :
               \E n \in result[b].nodes : n.type = d[1] /\ n.name = d[2] /\ n.file = f

\* a call returned a graph for a project in which one file cannot be read,
\* another makes the extractor throw and a third one parses
C8_Witness ==
  /\ pc[1] = "done"
  /\ fault["a.js"] = "read" /\ fault["lib/b.js"] = "throws" /\ fault["lib/m.py"] = "ok"
  /\ unreadableDirs = {}
  /\ \E n \in result[1].nodes : n.file = "lib/m.py" /\ n.type = "function"

\* ------------------------------------------------------------------------
\* Properties of analyzeFileImpact
\* ------------------------------------------------------------------------
Returned == answer.call = "analyzeFileImpact" /\ answer.outcome = "returned"

AffectedNodes ==
  Cardinality(answer.trace.directDependentIds) + Cardinality(answer.trace.transitiveDependentIds)

\* C9: whatever graph is loaded and whatever the target and maxDepth, the
\* impactScore analyzeFileImpact returns is an integer from 0 to 100.
C9_ScoreInRange == Returned => answer.value.impactScore \in 0..100

\* a query returned the score 100: every node of the graph depends on a
\* target
C9_Witness ==
  /\ Returned
  /\ AffectedNodes = answer.trace.totalNodes
  /\ answer.value.impactScore = 100

\* C10 as stated: impactScore is 0 exactly when the target resolves to no
\* node or has no direct and no transitive dependent node.
C10_ZeroIffNoDependents ==
  Returned => (answer.value.impactScore = 0 <=>
                 (answer.trace.targetNodes = {} \/ AffectedNodes = 0))

\* C10, amended: impactScore is 0 exactly when the target resolves to no node
\* or its direct and transitive dependent nodes together are fewer than one
\* in 200 of the nodes of the graph (so also when there are none).
C10_ZeroIffBelowHalfPercent ==
  Returned => (answer.value.impactScore = 0 <=>
                 (answer.trace.targetNodes = {} \/ 200 * AffectedNodes < answer.trace.totalNodes))

\* a target with a dependent node got the score 0
C10_Witness ==
  /\ Returned
  /\ answer.trace.targetNodes # {} /\ AffectedNodes > 0
  /\ answer.value.impactScore = 0

\* the loaded graph is the graph as it is persisted
LoadedIsCurrent == graph = getFullGraph(dbNodes, dbEdges, AnalysisId)

\* C11: with the node set, the target and maxDepth fixed, analyzeFileImpact
\* on a graph with one more edge returns an impactScore that is at least the
\* one it returned before the edge was added.
C11_ScoreMonotone ==
  (Returned /\ baseline.outcome = "returned" /\ answer.args = baseline.args /\ LoadedIsCurrent)
    => answer.value.impactScore >= baseline.value.impactScore

\* the same query returned a greater score after an edge was added
C11_Witness ==
  /\ Returned /\ baseline.outcome = "returned" /\ answer.args = baseline.args
  /\ LoadedIsCurrent
  /\ answer.value.impactScore > baseline.value.impactScore

\* C12: the target file is an element of neither directDependents nor
\* transitiveDependents of a result.
C12_TargetFileNotDependent ==
  Returned =>
    /\ answer.value.targetFile \notin Range(answer.value.directDependents)
    /\ answer.value.targetFile \notin Range(answer.value.transitiveDependents)

\* the files of the nodes with the given ids, in the loaded graph
FilesOf(ids) == {n.file : n \in {m \in graph.nodes : m.id \in ids}}

\* C13: directDependents and transitiveDependents of a result have no file
\* in common.
C13_DependentsDisjoint ==
  Returned =>
    Range(answer.value.directDependents) \cap Range(answer.value.transitiveDependents) = {}

\* a query returned for which one file holds a direct dependent node and a
\* transitive dependent node
C13_Witness ==
  /\ Returned
  /\ FilesOf(answer.trace.directDependentIds) \cap FilesOf(answer.trace.transitiveDependentIds)
       # {}

\* the loaded graph has no node analyzeFileImpact would take as target
NoTarget(targetFile, targetFunction) ==
  ~\E n \in graph.nodes :
     /\ n.file = targetFile
     /\ targetFunction # NoFunction => (n.type = "function" /\ n.name = targetFunction)

\* C16: on a loaded graph with no node in targetFile, or no function node
\* named targetFunction in it, analyzeFileImpact returns, and returns empty
\* lists, the score 0 and no vulnerability propagation.
C16_ZeroImpactResult ==
  /\ (answer.call = "analyzeFileImpact" /\ graph.analysisId = answer.args[1])
       => answer.outcome = "returned"
  /\ (Returned /\ NoTarget(answer.args[2], answer.args[3])) =>
       /\ answer.value.directDependents = <<>>
       /\ answer.value.transitiveDependents = <<>>
       /\ answer.value.affectedFiles = <<>>
       /\ answer.value.impactScore = 0
       /\ answer.value.vulnerabilityPropagation = <<>>

\* a query for a function the target file does not declare returned, while
\* the file has a high finding and a node that other nodes depend on
C16_Witness ==
  /\ Returned /\ answer.args[3] # NoFunction
  /\ NoTarget(answer.args[2], answer.args[3])
  /\ \E f \in dbFindings :
       f.analysisId = answer.args[1] /\ f.file = answer.args[2] /\ f.severity = "high"
  /\ \E e \in graph.edges : \E n \in graph.nodes :
       n.id = e.targetId /\ n.file = answer.args[2] /\ e.sourceId # e.targetId

C15_QueriesNeedLoadedGraph ==
  [][/\ (/\ answer'.call \in {"analyzeFileImpact", "findDeadCode"}
         /\ (graph = NoGraph \/ graph.analysisId # answer'.args[1]))
        => (answer'.outcome = "threw" /\ graph' = graph)
     /\ (answer'.call = "getDependencyChain" /\ graph = NoGraph)
        => (answer'.outcome = "threw" /\ graph' = graph)]_vars

\* C19: a step of analyzeFileImpact, findDeadCode or getDependencyChain
\* leaves the persisted nodes and edges as they are, and a step of
\* analyzeFileImpact or getDependencyChain leaves the snapshot and its four
\* indexes as they are.  (Under SpecQueries a step that ends with the
\* answer of a query is a step of that query.)
C19_QueriesReadOnly ==
  [][/\ answer'.call \in {"analyzeFileImpact", "findDeadCode", "getDependencyChain"}
        => UNCHANGED <<dbNodes, dbEdges>>
     /\ answer'.call \in {"analyzeFileImpact", "getDependencyChain"}
        => UNCHANGED <<graph, nodeIndex, fileNodeIndex, incomingEdgeIndex,
                       outgoingEdgeIndex>>]_vars

\* getDependencyChain has walked at least one outgoing edge of the loaded
\* graph, whose tables hold the graph's nodes and edges
C19_Witness ==
  /\ answer.call = "getDependencyChain" /\ Len(answer.value) >= 2
  /\ graph # NoGraph /\ graph.analysisId = AnalysisId
  /\ graph = getFullGraph(dbNodes, dbEdges, AnalysisId)

\* C17: a step that inserts edges is the last step of one call of
\* buildGraph, which ends without a failure; as the edges are in the table
\* so are a node for every declaration of every file, the source and the
\* target of every edge that was not dropped, placeholders included, and
\* the edges inserted are all the edges the call resolved.
C17_EdgesWrittenLast ==
  [][dbEdges' \ dbEdges # {} =>
       \E b \in Builds :
         LET log == resolution'[b]
             kept == {i \in 1..Len(log) : log[i].outcome # "dropped"}
         IN /\ pc[b] # "done" /\ pc'[b] = "done" /\ failedAt'[b] = "none"
            /\ {e.id : e \in dbEdges' \ dbEdges} \subseteq created'[b]
            /\ Cardinality(dbEdges' \ dbEdges) = Cardinality(kept)
            /\ \A i \in kept : {log[i].source, log[i].target} \subseteq dbNodes'
            /\ \A f \in SourceFiles : \A d \in Declarations(f) :
                 \E n \in dbNodes' :
                   n.id \in created'[b] /\ n.type = d[1] /\ n.name = d[2] /\ n.file = f]_vars

\* a call has ended whose edges run to a placeholder and to an extracted
\* node, and all of them are in the table
C17_Witness ==
  \E b \in Builds :
    /\ pc[b] = "done"
    /\ \E i, j \in 1..Len(resolution[b]) :
         resolution[b][i].outcome = "placeholder" /\ resolution[b][j].outcome = "resolved"
    /\ Cardinality({e \in dbEdges : e.id \in created[b]}) >= 2

\* the source reference of the i-th extracted edge of call b names no node
\* of the graph the call built
Unsourced(b, i) ==
  ~\E n \in result[b].nodes : n.id \in created[b] /\ n.name = resolution[b][i].sourceRef

\* C20: a call persists one edge per extracted edge whose source names a
\* node and none for the others, and every placeholder it creates bears the
\* target name of an extracted edge whose source names a node.
C20_UnsourcedEdgeDropped ==
  \A b \in Builds :
    pc[b] = "done" =>
      LET sourced == {i \in 1..Len(resolution[b]) : ~Unsourced(b, i)} IN
      /\ Cardinality({e \in result[b].edges : e.id \in created[b]}) = Cardinality(sourced)
      /\ \A p \in result[b].nodes :
           (p.id \in created[b] /\ p.external) =>
             \E i \in sourced : resolution[b][i].targetRef = p.name

\* a call has ended that extracted two edges whose source names no node:
\* the target of one names a node, the target of the other names none
C20_Witness ==
  \E b \in Builds :
    /\ pc[b] = "done"
    /\ \E i, j \in 1..Len(resolution[b]) :
         /\ Unsourced(b, i) /\ Unsourced(b, j)
         /\ \E n \in result[b].nodes : n.name = resolution[b][i].targetRef
         /\ ~\E n \in result[b].nodes : n.name = resolution[b][j].targetRef

\* the files of the tree the walk admits when there is no cap: in a readable
\* directory that is not excluded, with a supported extension, of a size
\* within the limit, and statSync succeeding
Eligible == {f \in SourceFiles : Reachable(f) /\ fault[f] # "stat"}

\* C18: with a maxFiles option of at least 1, the walk of a call admits at
\* most maxFiles files; when more files are eligible it admits exactly
\* maxFiles and logs the warning; the call fails only at a storage
\* operation, and the graph it returns has the module node of every
\* admitted file and of no other file.
C18_WalkStopsAtCap ==
  \A b \in Builds :
    (options.maxFiles >= 1 /\ pc[b] # "idle" /\ failedAt[b] # "deleteByAnalysisId") =>
      /\ Len(files[b]) <= options.maxFiles
      /\ {relative(files[b][i]) : i \in 1..Len(files[b])} \subseteq Eligible
      /\ Cardinality(Eligible) > options.maxFiles =>
           (Len(files[b]) = options.maxFiles /\ capWarned[b])
      /\ Cardinality(Eligible) <= options.maxFiles => Len(files[b]) = Cardinality(Eligible)
      /\ pc[b] = "failed" => failedAt[b] \in StorageOperations
      /\ pc[b] = "done" =>
           {n.file : n \in {m \in result[b].nodes : m.type = "module" /\ ~m.external}}
             = {relative(files[b][i]) : i \in 1..Len(files[b])}

\* a call returned the graph of the two files it admitted out of three
\* eligible ones, and the warning was logged
C18_Witness ==
  /\ options.maxFiles = 2 /\ Cardinality(Eligible) = 3
  /\ pc[1] = "done" /\ capWarned[1] /\ Len(files[1]) = 2
  /\ result[1].stats.totalNodes >= 2

\* the reference names a node that call b extracted from the project
NamesExtracted(b, ref) ==
  \E n \in result[b].nodes : n.id \in created[b] /\ ~n.external /\ n.name = ref

\* C21: every extracted edge whose source resolves and whose target names
\* no node extracted from the project is persisted as an edge to a node of
\* type module marked external, and the edge is marked unresolvedTarget,
\* also when several edges name the same external target.
C21_ExternalTargetMarked ==
  \A b \in Builds :
    pc[b] = "done" =>
      \A i \in 1..Len(resolution[b]) :
        LET en == resolution[b][i] IN
        (en.outcome # "dropped" /\ ~NamesExtracted(b, en.targetRef)) =>
          /\ en.target.type = "module" /\ en.target.external
          /\ \A e \in result[b].edges :
               (/\ e.id \in created[b] /\ e.type = en.type
                /\ e.sourceId = en.source.id /\ e.targetId = en.target.id)
                 => e.unresolvedTarget

\* the nodes call b extracted and inserted, and the name index lines
\* 105-112 build over them in creation order
ExtractedNodes(b) == {n \in result[b].nodes : n.id \in created[b] /\ ~n.external}
NodeMapOf(b) == BuildNodeMap(InIdOrder(ExtractedNodes(b)), 1, EmptyMap)

\* the node of a non-empty set that was created last
LastCreated(nodes) == CHOOSE n \in nodes : \A o \in nodes : o.id <= n.id

\* the nodes indexed under a key
KeyedBy(nodes, key) ==
  {n \in nodes : BareKey(n.name) = key \/ (n.file # NoFile /\ FileKey(n.file, n.name) = key)}

\* C22: the entry of the name index for a key is the node created last
\* among the extracted nodes of that key; a reference that a name resolves
\* is resolved to the node created last of that name; and no placeholder
\* bears the name of an extracted node.
C22_LastWriterWins ==
  \A b \in Builds :
    pc[b] = "done" =>
      /\ \A key \in DOMAIN NodeMapOf(b) :
           NodeMapOf(b)[key] = LastCreated(KeyedBy(ExtractedNodes(b), key))
      /\ \A i \in 1..Len(resolution[b]) :
           LET en == resolution[b][i] IN
           /\ NamesExtracted(b, en.sourceRef) =>
                en.source = LastCreated(KeyedBy(ExtractedNodes(b), BareKey(en.sourceRef)))
           /\ NamesExtracted(b, en.targetRef) =>
                en.target = LastCreated(KeyedBy(ExtractedNodes(b), BareKey(en.targetRef)))
      /\ \A p \in result[b].nodes :
           (p.id \in created[b] /\ p.external) => ~NamesExtracted(b, p.name)

\* a call has ended in which three extracted nodes share a bare name, two
\* of them in one file, a reference to that name was resolved, and a
\* placeholder was created
C22_Witness ==
  \E b \in Builds :
    /\ pc[b] = "done"
    /\ \E key \in DOMAIN NodeMapOf(b) :
         /\ key[1] # NoFile
         /\ Cardinality(KeyedBy(ExtractedNodes(b), key)) = 2
         /\ Cardinality(KeyedBy(ExtractedNodes(b), BareKey(key[2]))) = 3
         /\ \E i \in 1..Len(resolution[b]) :
              resolution[b][i].targetRef = key[2] /\ resolution[b][i].outcome = "resolved"
    /\ \E p \in result[b].nodes : p.id \in created[b] /\ p.external

\* the ids from which a node of S is reached along at most k edges of the
\* loaded graph
RECURSIVE Upstream(_, _)
Upstream(S, k) ==
  IF k = 0 THEN S
  ELSE Upstream(S \cup {e.sourceId : e \in {d \in graph.edges : d.targetId \in S}}, k - 1)

\* C23: a node counted as transitive dependent is no target node and no
\* direct dependent, and reaches a direct dependent along at most maxDepth
\* edges; with maxDepth 0 no node is counted; no node is counted twice.
C23_TraversalBoundedByMaxDepth ==
  Returned =>
    LET transitive == answer.trace.transitiveDependentIds
        direct == answer.trace.directDependentIds
        maxDepth == answer.args[4]
    IN /\ transitive \cap (direct \cup answer.trace.targetNodes) = {}
       /\ transitive \subseteq Upstream(direct, maxDepth)
       /\ maxDepth = 0 => transitive = {}
       /\ AffectedNodes = Cardinality(direct \cup transitive)

\* a query with maxDepth 1 counted a transitive dependent and left out a
\* node two edges away from the direct dependents
C23_Witness ==
  /\ Returned /\ answer.args[4] = 1
  /\ answer.trace.transitiveDependentIds # {}
  /\ Upstream(answer.trace.directDependentIds, 2)
       \ (Upstream(answer.trace.directDependentIds, 1) \cup answer.trace.targetNodes) # {}

\* the findings of the queried analysis recorded for exactly the file
SevereFindingsOf(analysisId, file) ==
  {f \in dbFindings :
     f.analysisId = analysisId /\ f.file = file /\ f.severity \in {"critical", "high"}}

\* C24: when the target resolves to a node, vulnerabilityPropagation has
\* one record per critical or high finding of targetFile and no other
\* record; the path of each record starts with targetFile and goes on with
\* at most 5 files, all of them direct dependents.
C24_PropagationPerSevereFinding ==
  (Returned /\ answer.trace.targetNodes # {}) =>
    LET records == answer.value.vulnerabilityPropagation
        severe == SevereFindingsOf(answer.args[1], answer.args[2])
    IN /\ Len(records) = Cardinality(severe)
       /\ {records[i].finding : i \in 1..Len(records)}
            = {<<ToUpperCase(f.severity), f.title>> : f \in severe}
       /\ \A i \in 1..Len(records) :
            LET path == records[i].propagationPath IN
            /\ Len(path) \in 1..(PathLimit + 1)
            /\ path[1] = answer.args[2]
            /\ \A k \in 2..Len(path) : path[k] \in Range(answer.value.directDependents)

\* the files of the tree
TreeFiles ==
  UNION {{Append(dir, DirEntries(dir)[i]) : i \in 1..Len(DirEntries(dir))} :
           dir \in {ProjectPath, LibDir, SkipDir}} \ {LibDir, SkipDir}

\* the names of the directories and of the file on a path below the project
NamesOnPath(fullPath) == {fullPath[i] : i \in 2..Len(fullPath)}

\* C25: while the cap is not reached, the walk admits exactly the files
\* with a supported extension and a size of at most maxFileSize on whose
\* path no directory or file name equals an entry of the exclude set; a
\* name that only contains an entry, as builder.js contains build, does not
\* exclude the file.
C25_AdmitsByExactExclude ==
  \A b \in Builds :
    (pc[b] # "idle" /\ failedAt[b] # "deleteByAnalysisId" /\ ~capWarned[b]) =>
      Range(files[b]) =
        {p \in TreeFiles :
           /\ Extension(p[Len(p)]) \in getSupportedExtensions
           /\ FileSize(p) <= (IF options.maxFileSize # 0 THEN options.maxFileSize
                              ELSE DefaultMaxFileSize)
           /\ NamesOnPath(p) \cap (defaultExcludePatterns \cup options.excludePatterns) = {}}

\* <<type, name>> of the nodes recovered for a file when its parse hits an
\* error: after a syntax error, the declarations of the statements the
\* parser recovered; when extractEdges throws, what extractNodes returned
Recovered(f) ==
  LET extracted == IF getParserForFile(f) = "python" THEN extractPythonNodes(SyntaxTree(f), f)
                   ELSE extractJsNodes(SyntaxTree(f), f)
  IN {<<extracted[i].type, extracted[i].name>> : i \in 1..Len(extracted)}

\* C26: for a file whose parse hits a syntax error or whose extractEdges
\* throws, parseFile returns a non-empty errors list and the nodes
\* recovered for the file, and the graph a call returns holds them.
C26_RecoveredNodesKept ==
  \A f \in SourceFiles :
    (Reachable(f) /\ fault[f] \in {"syntax", "edgesThrow"}) =>
      /\ parseFile(f).errors # <<>>
      /\ \A d \in Recovered(f) :
           /\ \E i \in 1..Len(parseFile(f).nodes) :
                parseFile(f).nodes[i].type = d[1] /\ parseFile(f).nodes[i].name = d[2]
           /\ \A b \in Builds :
                pc[b] = "done" =>
                  \E n \in result[b].nodes : n.type = d[1] /\ n.name = d[2] /\ n.file = f

\* C27: whatever loadGraph and query calls came before it on the shared
\* analyzer, analyzeFileImpact for an analysis either throws the not-loaded
\* error or returns a result computed on the graph of that analysis: the
\* nodes it counts and the files it lists are nodes and files of that
\* analysis.
C27_AnswersFromRequestedAnalysis ==
  answer.call = "analyzeFileImpact" =>
    \/ answer.outcome = "threw" /\ answer.value = NotLoaded
    \/ /\ answer.outcome = "returned"
       /\ LET own == findNodesByAnalysisId(dbNodes, answer.args[1]) IN
          /\ graph.analysisId = answer.args[1]
          /\ answer.trace.totalNodes = Cardinality(own)
          /\ answer.trace.targetNodes \cup answer.trace.directDependentIds
               \cup answer.trace.transitiveDependentIds \subseteq {n.id : n \in own}
          /\ Range(answer.value.affectedFiles) \subseteq {n.file : n \in own}

\* a query for one analysis was made while the non-empty graph of another
\* one was loaded
C27_Witness ==
  /\ answer.call = "analyzeFileImpact" /\ answer.outcome = "threw"
  /\ answer.args[1] = AnalysisId
  /\ graph.analysisId = OtherAnalysisId /\ graph.nodes # {} /\ graph.edges # {}
  /\ findNodesByAnalysisId(dbNodes, AnalysisId) # {}

\* the ids reached from a node of S along at most k edges of the loaded
\* graph
RECURSIVE Downstream(_, _)
Downstream(S, k) ==
  IF k = 0 THEN S
  ELSE Downstream(S \cup {e.targetId : e \in {d \in graph.edges : d.sourceId \in S}}, k - 1)

\* C28: on the graphs of the model, which hold cycles, self edges and
\* parallel edges, both traversals end.  analyzeFileImpact counts nodes of
\* the graph, each once; getDependencyChain lists each node at most once,
\* starts with the start node, and lists only nodes reached from it along
\* at most maxDepth edges.  (No two nodes of these graphs have the same
\* type, name and file.)
C28_TraversalsTerminate ==
  /\ Returned =>
       /\ answer.trace.directDependentIds \cup answer.trace.transitiveDependentIds
            \subseteq {n.id : n \in graph.nodes}
       /\ answer.trace.directDependentIds \cap answer.trace.transitiveDependentIds = {}
  /\ answer.call = "getDependencyChain" =>
       LET start == answer.args[1]
           chain == answer.value
           reached == Downstream({start}, answer.args[2]) \cap DOMAIN nodeIndex
       IN /\ Range(chain) \subseteq {ChainEntry(nodeIndex[id]) : id \in reached}
          /\ Len(chain) = Cardinality(Range(chain))
          /\ start \in DOMAIN nodeIndex =>
               (chain # <<>> /\ chain[1] = ChainEntry(nodeIndex[start]))

\* getDependencyChain listed several nodes from a start node that lies on
\* a cycle and has two edges to the same node
C28_Witness ==
  /\ answer.call = "getDependencyChain" /\ Len(answer.value) >= 2
  /\ answer.args[2] = DefaultChainDepth
  /\ \E p, q, back \in graph.edges :
       /\ p # q /\ p.sourceId = answer.args[1] /\ q.sourceId = answer.args[1]
       /\ p.targetId = q.targetId
       /\ back.sourceId = p.targetId /\ back.targetId = answer.args[1]

\* ------------------------------------------------------------------------
\* Properties of executeWithRetry
\* ------------------------------------------------------------------------
RECURSIVE Pow(_, _)
Pow(base, exponent) == IF exponent = 0 THEN 1 ELSE base * Pow(base, exponent - 1)

\* the positions in the events of a call at which it did a thing of a kind
EventsOf(kind) == {i \in 1..Len(retry.events) : retry.events[i].kind = kind}

\* C29: a call with maxAttempts = n calls the operation at most n times.
\* It returns the value of the first call that resolves, every earlier
\* call having rejected, and that call is the last thing it does.  When it
\* throws, n calls have rejected and it throws RetryExhaustedError with
\* attempts = n and the error of the n-th call, after n - 1 sleeps, the
\* last thing before the throw being the n-th rejection.  Every sleep comes
\* after a rejection and before the next call, the k-th one lasts
\* delayMs * backoffMultiplier^(k-1), and when onRetry is given it is
\* called once, just before each sleep, and at no other time.
C29_RetryAtMostMaxAttempts ==
  LET n == retry.config.maxAttempts
      events == retry.events
      calls == EventsOf("call")
      sleeps == EventsOf("sleep")
  IN
  /\ Cardinality(calls) <= n
  /\ retry.pc = "returned" =>
       /\ events[Len(events)].kind = "call"
       /\ retry.value = ValueOf(Cardinality(calls))
       /\ Cardinality(EventsOf("rejected")) = Cardinality(calls) - 1
  /\ retry.pc = "threw" =>
       /\ Cardinality(calls) = n /\ Cardinality(EventsOf("rejected")) = n
       /\ retry.thrown = RetryExhaustedError(ErrorOf(n), n)
       /\ Cardinality(sleeps) = n - 1
       /\ events[Len(events)].kind = "rejected"
  /\ \A i \in sleeps :
       /\ events[i].delay
            = retry.config.delayMs * Pow(retry.config.backoffMultiplier,
                                         Cardinality({j \in sleeps : j < i}))
       /\ i < Len(events) => events[i + 1].kind = "call"
       /\ IF retry.config.hasOnRetry
            THEN /\ events[i - 1].kind = "onRetry" /\ events[i - 1].delay = events[i].delay
                 /\ events[i - 2].kind = "rejected"
            ELSE events[i - 1].kind = "rejected"
  /\ Cardinality(EventsOf("onRetry"))
       = (IF retry.config.hasOnRetry THEN Cardinality(sleeps) ELSE 0)

\* a call with onRetry and a multiplier above 1 has thrown after the most
\* attempts of the model
C29_Witness ==
  /\ retry.pc = "threw" /\ retry.config.maxAttempts = MaxAttempts
  /\ retry.config.hasOnRetry /\ retry.config.backoffMultiplier > 1
  /\ Cardinality(EventsOf("sleep")) >= 2

\* ------------------------------------------------------------------------
\* Properties of Orchestrator.analyze
\* ------------------------------------------------------------------------
\* C30: when analyze has returned for a project that had a completed
\* analysis with scores when it was called, the trend it computed is not
\* null and is calculateTrend of its overall score against the overall score
\* of such an earlier analysis.
C30_TrendAgainstEarlierAnalysis ==
  \A id \in DOMAIN runs :
    (runs[id].pc = "returned" /\ runs[id].earlier # {}) =>
      /\ runs[id].scores[1].trend # NoTrend
      /\ \E e \in runs[id].earlier :
           runs[id].scores[1].trend
             = calculateTrend(runs[id].scores[1].overall, analyses[e].overallScore)

====
